---- MODULE Spec2Model ----
(***************************************************************************)
(* The strategy execution engine of hyper-tuner: the dynamically created   *)
(* Backtrader strategy class CustomStrategy (src/unnamed/part_007, lines   *)
(* 128-718) driven bar by bar by the Backtrader run loop.                  *)
(*                                                                         *)
(* Per bar the run loop (1) advances the data feed, (2) lets the broker    *)
(* work on the order created on the previous bar and delivers its          *)
(* notifications to notify_order, (3) calls next().  A market order        *)
(* created in next() of bar n is executed at the open of bar n+1, before   *)
(* next() of bar n+1 runs.                                                 *)
(*                                                                         *)
(* The values of a bar are drawn where the code reads them: the open by    *)
(* the broker when it executes an order, the close and the indicator       *)
(* lines by next().                                                        *)
(*                                                                         *)
(* Percentages are exact rationals <<num, den>> with den > 0; the code     *)
(* computes them in IEEE doubles.                                          *)
(***************************************************************************)
EXTENDS Integers, Sequences, FiniteSets, TLC

\* ------------------------------------------------------------------ bounds
\* Number of bars of the data feed.
MaxBars == 54
\* The entry line of the feed is above its threshold after this bar.
LastSignalBar == 33
\* Largest price the profit formulas are applied to in SpecRisk.
MaxPrice == 8
\* Number of bars of the feed of the stop-loss scenario.
ScenarioBars == 100
\* Longest condition list handed to the condition loop in SpecEval.
MaxConditions == 2
\* Number of bars of the stream the engine is run on twice in SpecReplay.
ReplayLength == 33
\* Number of optimizations started in SpecTuner.
MaxOptimizations == 1
MaxRuns == 2
MaxVerifying == 1
MaxAuthSuccess == 2
\* Number of status requests issued in SpecTuner.
MaxPolls == 6
\* Number of bars the head of next() is applied to in SpecMetrics.
MaxMetricBars == 5

\* ------------------------------------------------------- program constants
\* "if current_bar < 30" in _evaluate_entry_conditions.
WarmupBars == 30
\* "if bars_in_position > 20 and not exit_trade" in _evaluate_exit_conditions.
MaxHoldingPeriod == 20
\* "stop_loss": 5 and "target_profit": 25 of the strategy the class was built for.
stop_loss == 5
target_profit == 25
\* "threshold": 205 of the entry condition sma <= 205.
EntryThreshold == 205
\* self.buyprice = None, self.position_entry_bar = None
None == -1
\* The value NaN of an indicator line (the sample_values of sma).
NaN == -2

\* --------------------------------------------------------------- the inputs
\* Prices a bar may open or close at: 100 -> 126 crosses the 25% target and
\* 126 -> 100 the 5% stop of a long position.
Prices == {100, 126}
\* Values of the indicator lines: one on each side of the thresholds.
SmaValues == {200, 210}
RsiValues == {50, 80}
\* broker.setcash(initial_capital): one that cannot pay 126, and the default.
Capitals == {110, 100000}
StrategyTypes == {"buy", "sell"}


\* Variable and line names are sequences of characters, so that the name
\* handling of the class (isidentifier, the sanitized name) can be computed.
VarSma == << "s", "m", "a" >>
VarRsi == << "r", "s", "i" >>
\* Not an identifier; its sanitized name s_a is a line of the feed.
VarDashed == << "s", "-", "a" >>
VarUnderscored == << "s", "_", "a" >>
\* Not an identifier; its sanitized name ind_9a is not a line of the feed.
VarDigit == << "9", "a" >>

entry_conditions ==
    << [indicator |-> "SMA", comparison |-> "<=", variable |-> VarSma,
        threshold |-> EntryThreshold] >>
\* One exit condition, rsi > 70, so that the exit list is exercised.
exit_conditions ==
    << [indicator |-> "RSI", comparison |-> ">", variable |-> VarRsi,
        threshold |-> 70] >>

VARIABLES
    strategy_type,      \* 'buy' or 'sell', fixed when the class is created
    bar,                \* len(self.datas[0]): bars delivered so far
    pc,                 \* where the run is: "feed", "bar", "done", "raised"; "calc" in
                        \* SpecRisk; "metrics" in SpecMetrics; "new", "ready", "evaluated" in SpecEval; "form", "saved",
                        \* "rejected" in SpecForm
    cash,               \* broker cash
    position,           \* self.position.size (the broker's position)
    pending,            \* the broker's view of the order in flight
    opened,             \* positions the broker has opened
    closed,             \* positions the broker has closed
    order,              \* self.order
    buyprice,           \* self.buyprice
    current_trade,      \* self.current_trade (not set by __init__)
    trades,             \* self.trades
    position_entry_bar, \* self.position_entry_bar
    position_tracking,  \* self.position_tracking
    equity_curve,       \* self.equity_curve: its length, last value and maximum
    max_drawdown,       \* self.max_drawdown
    returns,            \* self.returns: its length, whether a return is NaN and
                        \* whether a return is a number other than 0
    sharpe_ratio,       \* self.sharpe_ratio: "0", "finite", "nan" or "inf"
    bar_tracking,       \* the last entry appended to self.condition_evaluations
    data,               \* what next() read of the current bar (0: not read)
    exit_decision,      \* why next() decided to exit on the current bar (its log line)
    order_reason,       \* the exit_decision the order in flight was created with
    decided,            \* per EXIT of position_tracking, the decision behind it
    first_signal,       \* the first bar on which next() found an entry condition true
    calc,               \* SpecRisk: the profit formulas applied to one input
    conditions,         \* SpecEval: self.entry_conditions of the strategy object
    attributes,         \* SpecEval: the names __init__ has set as attributes
    lines,              \* SpecEval: the indicator lines of the current bar
    evaluation,         \* SpecEval: what the condition loop returned and tracked
    form,               \* SpecForm: the state of the StrategyCreation form
    errors,             \* SpecForm: the errors state of the form
    strategyData,       \* SpecForm: what handleSubmit passed to onSave
    run,                \* SpecReplay: 1 in the first run of the engine, 2 in the second
    stream,             \* SpecReplay: the capital and the bars both runs are given
    first_result,       \* SpecReplay: what the first run returned
    timezoneOffset,     \* SpecDate: getTimezoneOffset() of the browser, in minutes
    dateForm,           \* SpecDate: the state of the BacktestParameters form and
                        \* the local days and time of day its dates were made of
    formatted,          \* SpecDate: what formatLocalDate returned
    backtestData,       \* SpecDate: what handleSubmit passed to onSubmit
    activeTab,          \* SpecTuner: the tab of StrategyTuner that is shown
    error,              \* SpecTuner: the error message shown, "null" for none
    loading,            \* SpecTuner: "None", or the handler that awaits the backend
    strategy_id,        \* SpecTuner: whether strategy.strategy_id is set
    backtestResults,    \* SpecTuner: "null" or "set"
    optimizationResults,\* SpecTuner: "null", "started" (the response of
                        \* run-optimization) or "compared" (with comparison data)
    optimizationId,     \* SpecTuner: 0 for null, else the id of the last optimization
    optimizationStatus, \* SpecTuner: "null" or the status last received
    pollAttempts,       \* SpecTuner: window.pollAttempts, 0 for undefined
    pollRetries,        \* SpecTuner: window.pollRetries, 0 for undefined
    polls,              \* SpecTuner: per optimization, where its polling stands
    statusRequests,     \* SpecTuner: the number of status requests issued
    resultsTimers,      \* SpecTuner: the optimizations whose 500 ms timer is pending
    dataProvider,       \* SpecKite: 'yahoo' or 'kite'
    requiresAuth,       \* SpecKite: whether Kite asks for authentication
    tokenValid,         \* SpecKite: the validity of the Kite token last learnt
    lastTokenCheck,     \* SpecKite: None, or the time of the last answered check
    currentKiteUser,    \* SpecKite: "null" or the selected Kite user
    showAuthModal,      \* SpecKite: whether App shows KiteAuthModal
    screen,             \* SpecKite: the step of StrategyCreation that is shown
    tokenCheck,         \* SpecKite: the call of checkKiteToken made in this step
    verifying,          \* SpecKite: the verifyKiteToken requests in flight
    providerRequest,    \* SpecKite: the setDataProvider request in flight
    lastReceivedMessage,\* SpecKite: sessionStorage, the last message event
    kiteAuthBackupSuccess, \* SpecKite: sessionStorage, the backup success entry
    now,                \* SpecKite, SpecKiteAuth: the clock, ms of the day (UTC)
    authStatus,         \* SpecKiteAuth: authStatus.authenticated
    kite_auth_state,    \* SpecKiteAuth: localStorage, the stored auth state
    search,             \* SpecKiteAuth: auth_status of the page URL, "null" for none
    authRequest,        \* SpecKiteAuth: "None", or the request KiteAuth awaits
    authResponse,       \* SpecKiteAuth: the last answer of the backend
    authSuccess         \* SpecKiteAuth: how often onAuthSuccess was called

brokerVars == << cash, position, pending, opened, closed >>
strategyVars == << order, buyprice, current_trade, trades, position_entry_bar,
                   position_tracking >>
evalVars == << bar_tracking, data, exit_decision >>
metricVars == << equity_curve, max_drawdown, returns, sharpe_ratio >>
historyVars == << order_reason, decided, first_signal >>

\* The variables of the specifications of single functions.
evaluatorVars == << conditions, attributes, lines, evaluation >>
formVars == << form, errors, strategyData >>
replayVars == << run, stream, first_result >>
dateVars == << timezoneOffset, dateForm, formatted, backtestData >>
tunerVars == << activeTab, error, loading, strategy_id, backtestResults,
               optimizationResults, optimizationId, optimizationStatus,
               pollAttempts, pollRetries, polls, statusRequests,
               resultsTimers >>
kiteVars == << dataProvider, requiresAuth, tokenValid, lastTokenCheck,
              currentKiteUser, showAuthModal, screen, tokenCheck, verifying,
              providerRequest, lastReceivedMessage, kiteAuthBackupSuccess >>
kiteAuthVars == << authStatus, kite_auth_state, search, authRequest,
                  authResponse, authSuccess >>
kiteAllVars == << kiteVars, now, kiteAuthVars >>
pureVars == << calc, evaluatorVars, formVars, replayVars, dateVars, tunerVars,
              kiteAllVars >>

vars == << strategy_type, bar, pc, brokerVars, strategyVars, evalVars,
           metricVars, historyVars, pureVars >>

\* ---------------------------------------------------------------- helpers
NoPending == [status |-> "None"]
NoTrade == [tag |-> "None"]
UnsetTrade == [tag |-> "unset"]
NoData == [close |-> 0, sma |-> 0, rsi |-> 0]
NoTracking == [bar_number |-> 0, type |-> "none", conditions |-> << >>]
NoCalc == [tag |-> "none"]
NoEvaluation == [tag |-> "none"]
NoForm == [tag |-> "none"]
NoStrategy == [tag |-> "none"]
NoReturns == [len |-> 0, nan |-> FALSE, nonzero |-> FALSE]
NoStream == [capital |-> 0]
NoResult == [pc |-> "None"]
\* Outside SpecReplay there is one run and nothing is replayed.
NoReplay == run = 1 /\ stream = NoStream /\ first_result = NoResult
NoDateForm == [initialCapital |-> 0]
NoBacktestData == [initial_capital |-> 0]
\* Outside SpecDate there is no date to format.
NoDates ==
    /\ timezoneOffset = 0
    /\ dateForm = NoDateForm
    /\ formatted = << >>
    /\ backtestData = NoBacktestData
\* Polling of an optimization: not started ("none"), a status request in
\* flight ("request"), a setTimeout pending ("timer") or over ("ended");
\* and the delay of the pending setTimeout.
NoPoll == [state |-> "none", delay |-> 0]
\* useState(...) of StrategyTuner.
\* The optimization ids the backend hands out.
OptimizationIds == 1..MaxRuns

StartTuner ==
    /\ activeTab = "strategy"
    /\ error = "null"
    /\ loading = "None"
    /\ strategy_id = FALSE
    /\ backtestResults = "null"
    /\ optimizationResults = "null"
    /\ optimizationId = 0
    /\ optimizationStatus = "null"
    /\ pollAttempts = 0
    /\ pollRetries = 0
    /\ polls = [id \in OptimizationIds |-> NoPoll]
    /\ statusRequests = 0
    /\ resultsTimers = {}
\* Outside SpecTuner the component stays as it is mounted.
NoTuner == StartTuner
\* The Kite data source before anything has happened: the useState values
\* of DataSourceProvider and App, no request in flight, an empty
\* sessionStorage.
\* The time of day h:m:s in milliseconds.
TimeOfDay(h, m, s) == ((h * 60 + m) * 60 + s) * 1000
NoRequest == [provider |-> "null", userId |-> "null"]
NoEntry == [user_id |-> "none"]
NoMessage == [origin |-> "null", status |-> "null"]
NoCheck == [caller |-> "null", userId |-> "null", force |-> FALSE,
            requested |-> FALSE, returned |-> FALSE]
NoAuthState == [authenticated |-> FALSE, timestamp |-> 0]
StartKite ==
    /\ dataProvider = "yahoo"
    /\ requiresAuth = FALSE
    /\ tokenValid = FALSE
    /\ lastTokenCheck = None
    /\ currentKiteUser = "null"
    /\ showAuthModal = FALSE
    /\ now = TimeOfDay(9, 30, 0)
    /\ screen = "strategy"
    /\ tokenCheck = NoCheck
    /\ verifying = {}
    /\ providerRequest = NoRequest
    /\ lastReceivedMessage = NoMessage
    /\ kiteAuthBackupSuccess = NoEntry
StartKiteAuth ==
    /\ authStatus = FALSE
    /\ kite_auth_state = NoAuthState
    /\ search = "null"
    /\ authRequest = "None"
    /\ authResponse = "null"
    /\ authSuccess = 0
\* Outside SpecKite and SpecKiteAuth nothing of it moves.
NoKite == StartKite /\ StartKiteAuth
NoEquity == [len |-> 0, last |-> 0, peak |-> 0]

\* Exact comparison num/den >= t for den > 0, and equality of two rationals.
PctGE(p, t) == p[1] >= t * p[2]
PctEq(p, q) == p[1] * q[2] = q[1] * p[2]

\* The comparison of one condition.  An operator other than these six
\* leaves condition_result False.  The values are Python floats: every
\* comparison with NaN is False, except != which is True.
Compare(comparison, var_value, threshold) ==
    CASE comparison = ">"  -> var_value # NaN /\ var_value > threshold
      [] comparison = ">=" -> var_value # NaN /\ var_value >= threshold
      [] comparison = "<"  -> var_value # NaN /\ var_value < threshold
      [] comparison = "<=" -> var_value # NaN /\ var_value <= threshold
      [] comparison = "==" -> var_value # NaN /\ var_value = threshold
      [] comparison = "!=" -> var_value = NaN \/ var_value # threshold
      [] OTHER -> FALSE

\* The lines of the data feed that carry indicator values, by name.
Lines(d) == (VarSma :> d.sma) @@ (VarRsi :> d.rsi)

\* str.isalpha and str.isalnum on the characters that occur in names.
IsAlpha(c) == c \in {"s", "m", "a", "r", "i", "n", "d"}
IsAlnum(c) == IsAlpha(c) \/ c \in {"9"}

\* var_name.isidentifier()
IsIdentifier(var_name) ==
    /\ Len(var_name) > 0
    /\ IsAlpha(var_name[1]) \/ var_name[1] = "_"
    /\ \A i \in 1..Len(var_name) : IsAlnum(var_name[i]) \/ var_name[i] = "_"

\* safe_var_name: every character that is neither alphanumeric nor '_'
\* becomes '_', and 'ind_' is put in front of a name that starts with a digit.
SafeVarName(var_name) ==
    LET replaced == [i \in 1..Len(var_name) |->
                        IF IsAlnum(var_name[i]) \/ var_name[i] = "_"
                        THEN var_name[i] ELSE "_"]
    IN IF ~IsAlpha(replaced[1]) /\ replaced[1] # "_"
       THEN << "i", "n", "d", "_" >> \o replaced
       ELSE replaced

\* The loop of __init__ over the conditions: setattr(self, var_name, None)
\* for the names that are identifiers; the others are logged and skipped.
InitializedVariables(conds) ==
    { conds[i].variable : i \in { j \in 1..Len(conds) :
                                    /\ "variable" \in DOMAIN conds[j]
                                    /\ IsIdentifier(conds[j].variable) } }

\* A plausible slip: a condition whose line is missing is passed over
\* without a tracking entry.
EvaluateConditionSkippingMissing(condition, ls, type, acc) ==
    LET var_name == condition.variable
        line_name == IF var_name \in DOMAIN ls THEN var_name
                     ELSE SafeVarName(var_name)
    IN IF line_name \notin DOMAIN ls
       THEN acc
       ELSE LET var_value == ls[line_name]
                condition_result == Compare(condition.comparison, var_value,
                                            condition.threshold)
            IN [flag |-> acc.flag \/ condition_result,
                trace |-> Append(acc.trace,
                    [type |-> type, variable |-> var_name,
                     value |-> IF var_value # NaN THEN var_value ELSE None,
                     comparison |-> condition.comparison,
                     threshold |-> condition.threshold,
                     result |-> condition_result, error |-> FALSE])]

\* The body of the condition loop for one condition: acc holds the flag
\* (enter_trade / exit_trade) and bar_tracking['conditions'] so far.
EvaluateCondition(condition, ls, type, acc) ==
    IF "comparison" \notin DOMAIN condition \/ "variable" \notin DOMAIN condition
    THEN acc
    ELSE LET var_name == condition.variable
             safe_var_name == SafeVarName(var_name)
             line_exists == var_name \in DOMAIN ls \/ safe_var_name \in DOMAIN ls
             line_name == IF var_name \in DOMAIN ls THEN var_name
                          ELSE safe_var_name
         IN IF line_exists
            THEN LET var_value == ls[line_name]
                     condition_result == Compare(condition.comparison, var_value,
                                                 condition.threshold)
                 IN [flag |-> acc.flag \/ condition_result,
                     trace |-> Append(acc.trace,
                         [type |-> type, variable |-> var_name,
                          value |-> IF var_value # NaN THEN var_value
                                    ELSE None,
                          comparison |-> condition.comparison,
                          threshold |-> condition.threshold,
                          result |-> condition_result, error |-> FALSE])]
            ELSE [flag |-> acc.flag,
                  trace |-> Append(acc.trace,
                      [type |-> type, variable |-> var_name, value |-> None,
                       comparison |-> condition.comparison,
                       threshold |-> condition.threshold,
                       result |-> FALSE, error |-> TRUE])]

RECURSIVE EvaluateConditions(_, _, _, _)
EvaluateConditions(conds, ls, type, acc) ==
    IF conds = << >> THEN acc
    ELSE EvaluateConditions(Tail(conds), ls, type,
                            EvaluateCondition(Head(conds), ls, type, acc))

\* A plausible slip: the loop is left at the first condition that is true.
RECURSIVE EvaluateConditionsUntilTrue(_, _, _, _)
EvaluateConditionsUntilTrue(conds, ls, type, acc) ==
    IF conds = << >> \/ acc.flag THEN acc
    ELSE EvaluateConditionsUntilTrue(Tail(conds), ls, type,
                                     EvaluateCondition(Head(conds), ls, type, acc))
ConditionLoopShortCircuit(conds, ls, type) ==
    EvaluateConditionsUntilTrue(conds, ls, type, [flag |-> FALSE, trace |-> << >>])

\* The condition loop of _evaluate_entry_conditions and of
\* _evaluate_exit_conditions: the flag starts False, the tracking empty.
ConditionLoop(conds, ls, type) ==
    EvaluateConditions(conds, ls, type, [flag |-> FALSE, trace |-> << >>])

\* profit_pct and loss_pct of the risk check in next() and of the exit
\* reason in notify_order.
RiskProfitPct(type, price, entry_price) ==
    IF type = "buy"
    THEN << (price - entry_price) * 100, entry_price >>
    ELSE << (entry_price - price) * 100, entry_price >>
\* A loss computed with the sign of the long branch in both directions.
RiskLossPctSameSign(type, price, entry_price) ==
    << (entry_price - price) * 100, entry_price >>

RiskLossPct(type, price, entry_price) ==
    IF type = "buy"
    THEN << (entry_price - price) * 100, entry_price >>
    ELSE << (price - entry_price) * 100, entry_price >>

\* profit_pct and profit_points of the trade record in notify_order.
TradeProfitPct(type, price, entry_price) ==
    IF type = "buy"
    THEN << (price - entry_price) * 100, entry_price >>
    ELSE << (entry_price - price) * 100, price >>
TradeProfitPoints(type, price, entry_price) ==
    IF type = "buy" THEN price - entry_price ELSE entry_price - price

\* ------------------------------------------------------------------- Init
\* CustomStrategy.__init__ and a broker holding only cash.
Init ==
    /\ strategy_type \in StrategyTypes
    /\ bar = 0
    /\ pc = "feed"
    /\ cash \in Capitals
    /\ position = 0
    /\ pending = NoPending
    /\ opened = 0
    /\ closed = 0
    /\ order = "None"
    /\ buyprice = None
    /\ current_trade = UnsetTrade
    /\ trades = << >>
    /\ position_entry_bar = None
    /\ position_tracking = << >>
    /\ equity_curve = NoEquity
    /\ max_drawdown = << 0, 1 >>
    /\ returns = NoReturns
    /\ sharpe_ratio = "0"
    /\ bar_tracking = NoTracking
    /\ data = NoData
    /\ exit_decision = "None"
    /\ order_reason = "None"
    /\ decided = << >>
    /\ first_signal = 0
    /\ calc = NoCalc
    /\ conditions = << >>
    /\ attributes = {}
    /\ lines = << >>
    /\ evaluation = NoEvaluation
    /\ form = NoForm
    /\ errors = {}
    /\ strategyData = NoStrategy
    /\ NoTuner
    /\ NoKite
    /\ NoDates
    /\ NoReplay

\* ------------------------------------------------------------ notify_order
\* A plausible slip: the buy branch appends the trade record it creates.
NotifyCompletedBuyAppending(price) ==
    /\ buyprice' = price
    /\ current_trade' = [tag |-> "dict", entry_date |-> bar, entry_price |-> price,
                         exit_date |-> None, exit_price |-> None,
                         profit_points |-> 0, profit_pct |-> << 0, 1 >>,
                         size |-> 1]
    /\ trades' = Append(trades, current_trade')
    /\ position_entry_bar' = bar
    /\ position_tracking' = Append(position_tracking,
            [action |-> "ENTRY", bar_index |-> bar, price |-> price,
             reason |-> "Entry conditions met"])
    /\ order' = "None"
    /\ pc' = pc
    /\ UNCHANGED decided

\* A plausible slip: the buy branch does not store the executed price.
NotifyCompletedBuyNoPrice(price) ==
    /\ current_trade' = [tag |-> "dict", entry_date |-> bar, entry_price |-> price,
                         exit_date |-> None, exit_price |-> None,
                         profit_points |-> 0, profit_pct |-> << 0, 1 >>,
                         size |-> 1]
    /\ position_entry_bar' = bar
    /\ position_tracking' = Append(position_tracking,
            [action |-> "ENTRY", bar_index |-> bar, price |-> price,
             reason |-> "Entry conditions met"])
    /\ order' = "None"
    /\ pc' = pc
    /\ UNCHANGED << buyprice, trades, decided >>

\* A plausible slip: the entry date of the trade record is taken from the
\* clock of the machine, not from the bar.
NotifyCompletedBuyWallClock(price) ==
    /\ buyprice' = price
    /\ \E clock \in {bar, bar + 1} :
         current_trade' = [tag |-> "dict", entry_date |-> clock, entry_price |-> price,
                           exit_date |-> None, exit_price |-> None,
                           profit_points |-> 0, profit_pct |-> << 0, 1 >>,
                           size |-> 1]
    /\ position_entry_bar' = bar
    /\ position_tracking' = Append(position_tracking,
            [action |-> "ENTRY", bar_index |-> bar, price |-> price,
             reason |-> "Entry conditions met"])
    /\ order' = "None"
    /\ pc' = pc
    /\ UNCHANGED << trades, decided >>

\* order.status == Completed and order.isbuy(): the entry of a long strategy
\* (or the cover of a short one) was executed at `price`.
NotifyCompletedBuy(price) ==
    /\ buyprice' = price
    /\ current_trade' = [tag |-> "dict", entry_date |-> bar, entry_price |-> price,
                         exit_date |-> None, exit_price |-> None,
                         profit_points |-> 0, profit_pct |-> << 0, 1 >>,
                         size |-> 1]
    /\ position_entry_bar' = bar
    /\ position_tracking' = Append(position_tracking,
            [action |-> "ENTRY", bar_index |-> bar, price |-> price,
             reason |-> "Entry conditions met"])
    /\ order' = "None"
    /\ pc' = pc
    /\ UNCHANGED << trades, decided >>

\* The exit reason notify_order derives from the executed price.
RecordedReason(price) ==
    IF buyprice # None /\ buyprice # 0
    THEN IF target_profit > 0
            /\ PctGE(RiskProfitPct(strategy_type, price, buyprice), target_profit)
         THEN "Take profit triggered"
         ELSE IF stop_loss > 0
                 /\ PctGE(RiskLossPct(strategy_type, price, buyprice), stop_loss)
              THEN "Stop loss triggered"
              ELSE "Exit conditions met"
    ELSE "Exit conditions met"

\* self.current_trade with the exit fields filled in.
ClosedTrade(price) ==
    [current_trade EXCEPT
        !.exit_date = bar,
        !.exit_price = price,
        !.profit_points = TradeProfitPoints(strategy_type, price, buyprice),
        !.profit_pct = TradeProfitPct(strategy_type, price, buyprice)]

\* order.status == Completed and order.issell(): the exit of a long strategy
\* or the entry of a short one.  self.current_trade is assigned only by the
\* buy branch, so reading it before any buy was executed raises AttributeError
\* (subscripting None raises TypeError, as does subtracting a None buyprice):
\* the exception leaves notify_order and ends the run.
NotifyCompletedSell(price) ==
    IF current_trade.tag # "dict" \/ buyprice = None
    THEN /\ pc' = "raised"
         /\ UNCHANGED strategyVars
         /\ UNCHANGED decided
    ELSE /\ position_tracking' = Append(position_tracking,
                [action |-> "EXIT", bar_index |-> bar, price |-> price,
                 reason |-> RecordedReason(price),
                 profit_pct |-> ClosedTrade(price).profit_pct])
         /\ decided' = Append(decided, order_reason)
         /\ trades' = Append(trades, ClosedTrade(price))
         /\ current_trade' = NoTrade
         /\ position_entry_bar' = None
         /\ order' = "None"
         /\ pc' = pc
         /\ UNCHANGED buyprice

\* ------------------------------------------------------------- the broker
\* Whether the broker has the cash to execute the order at `price`: buying
\* into a long position costs size * price; a sell adds cash.
Affordable(o, price) ==
    \/ ~o.isbuy
    \/ position < 0
    \/ cash >= o.size * price

\* Size and cash after the execution of o at `price`.
Executed(o, price) ==
    IF o.isbuy
    THEN [position |-> position + o.size, cash |-> cash - o.size * price]
    ELSE [position |-> position - o.size, cash |-> cash + o.size * price]

\* order.Submitted is delivered: notify_order returns at once.
BrokerSubmit ==
    /\ pc = "bar"
    /\ pending.status = "Created"
    /\ pending' = [pending EXCEPT !.status = "Submitted"]
    /\ UNCHANGED << strategy_type, bar, pc, cash, position, opened, closed,
                    strategyVars, evalVars, metricVars, historyVars, pureVars >>

\* The broker accepts the submitted order (it can pay it at the price it was
\* created at); order.Accepted is delivered: notify_order returns at once.
BrokerAccept ==
    /\ pc = "bar"
    /\ pending.status = "Submitted"
    /\ Affordable(pending, pending.created)
    /\ pending' = [pending EXCEPT !.status = "Accepted"]
    /\ UNCHANGED << strategy_type, bar, pc, cash, position, opened, closed,
                    strategyVars, evalVars, metricVars, historyVars, pureVars >>

\* A plausible slip: notify_order does not clear self.order on Margin.
BrokerMarginKeepingOrder ==
    /\ pc = "bar"
    /\ \/ pending.status = "Submitted" /\ ~Affordable(pending, pending.created)
       \/ pending.status = "Accepted"
          /\ \E open \in Prices : ~Affordable(pending, open)
    /\ pending' = NoPending
    /\ UNCHANGED << strategy_type, bar, pc, cash, position, opened, closed,
                    strategyVars, evalVars, metricVars, historyVars, pureVars >>

\* The broker cannot pay the order, at submission or at the open it would be
\* executed at; order.Margin is delivered: notify_order clears self.order.
BrokerMarginAt(opens) ==
    /\ pc = "bar"
    /\ \/ pending.status = "Submitted" /\ ~Affordable(pending, pending.created)
       \/ pending.status = "Accepted"
          /\ \E open \in opens : ~Affordable(pending, open)
    /\ pending' = NoPending
    /\ order' = "None"
    /\ UNCHANGED << strategy_type, bar, pc, cash, position, opened, closed,
                    buyprice, current_trade, trades, position_entry_bar,
                    position_tracking, evalVars, metricVars, historyVars, pureVars >>

BrokerMargin == BrokerMarginAt(Prices)

\* The broker executes the accepted market order at the open of the current
\* bar, one of `opens`; order.Completed is delivered to notify_order.
BrokerExecuteAt(opens) ==
    /\ pc = "bar"
    /\ pending.status = "Accepted"
    /\ \E open \in opens :
        /\ Affordable(pending, open)
        /\ position' = Executed(pending, open).position
        /\ cash' = Executed(pending, open).cash
        /\ opened' = IF position = 0 THEN opened + 1 ELSE opened
        /\ closed' = IF position # 0 /\ position' = 0 THEN closed + 1 ELSE closed
        /\ pending' = NoPending
        /\ IF pending.isbuy
           THEN NotifyCompletedBuy(open)
           ELSE NotifyCompletedSell(open)
    /\ UNCHANGED << strategy_type, bar, evalVars, metricVars, order_reason,
                    first_signal, pureVars >>

BrokerExecute == BrokerExecuteAt(Prices)

\* ------------------------------------------------------------------- next
\* A plausible slip: the warm-up check is missing.
EvaluateEntryNoWarmup(d) ==
    LET r == ConditionLoop(entry_conditions, Lines(d), "entry")
    IN [enter_trade |-> r.flag,
        tracking |-> [bar_number |-> bar, type |-> "entry",
                      conditions |-> r.trace]]

\* _evaluate_entry_conditions: nothing is evaluated before bar 30.
EvaluateEntry(d) ==
    IF bar < WarmupBars
    THEN [enter_trade |-> FALSE, tracking |-> bar_tracking]
    ELSE LET r == ConditionLoop(entry_conditions, Lines(d), "entry")
         IN [enter_trade |-> r.flag,
             tracking |-> [bar_number |-> bar, type |-> "entry",
                           conditions |-> r.trace]]

BarsInPosition ==
    IF position_entry_bar # None THEN bar - position_entry_bar ELSE 0

\* The tracking entry of the holding-period failsafe.
DurationTrace ==
    [type |-> "exit", variable |-> << "bars_in_position" >>,
     value |-> BarsInPosition, comparison |-> ">",
     threshold |-> MaxHoldingPeriod, result |-> TRUE, error |-> FALSE]

\* A plausible slip: the holding-period failsafe does not look at exit_trade.
EvaluateExitDurationFirst(d) ==
    LET r == ConditionLoop(exit_conditions, Lines(d), "exit")
        byCondition == r.flag
        byDuration == BarsInPosition > MaxHoldingPeriod
    IN [exit_trade |-> byCondition \/ byDuration,
        reason |-> IF byDuration THEN "MaxHoldingPeriod"
                   ELSE IF byCondition THEN "ExitCondition" ELSE "None",
        tracking |-> [bar_number |-> bar, type |-> "exit",
                      conditions |-> IF byDuration
                                     THEN Append(r.trace, DurationTrace)
                                     ELSE r.trace]]

\* _evaluate_exit_conditions: the exit list, then the holding-period failsafe.
EvaluateExit(d) ==
    LET r == ConditionLoop(exit_conditions, Lines(d), "exit")
        byCondition == r.flag
        byDuration == BarsInPosition > MaxHoldingPeriod /\ ~byCondition
    IN [exit_trade |-> byCondition \/ byDuration,
        reason |-> IF byCondition THEN "ExitCondition"
                   ELSE IF byDuration THEN "MaxHoldingPeriod" ELSE "None",
        tracking |-> [bar_number |-> bar, type |-> "exit",
                      conditions |-> IF byDuration
                                     THEN Append(r.trace, DurationTrace)
                                     ELSE r.trace]]

\* The exit branch of next(): target profit, then stop loss, then
\* _evaluate_exit_conditions.
ExitCheck(d) ==
    IF buyprice # None
    THEN IF target_profit > 0
            /\ PctGE(RiskProfitPct(strategy_type, d.close, buyprice), target_profit)
         THEN [exit_trade |-> TRUE, reason |-> "TargetProfit",
               tracking |-> bar_tracking]
         ELSE IF stop_loss > 0
                 /\ PctGE(RiskLossPct(strategy_type, d.close, buyprice), stop_loss)
              THEN [exit_trade |-> TRUE, reason |-> "StopLoss",
                    tracking |-> bar_tracking]
              ELSE EvaluateExit(d)
    ELSE EvaluateExit(d)

\* A plausible slip: the entry branch is not guarded by the position.
LooksForEntryAlways == TRUE

\* Whether next() looks for an entry: "if not self.position".
LooksForEntry == position = 0

\* self.buy(size=...) / self.sell(size=...): a market order handed to the
\* broker, created at the close of the current bar.
NewOrder(isbuy, size, close) ==
    [status |-> "Created", isbuy |-> isbuy, size |-> size, created |-> close]

\* The bars the feed may deliver: close and the two indicator lines.
Bars ==
    [close : Prices,
     sma : IF bar <= LastSignalBar THEN SmaValues
           ELSE {v \in SmaValues : v > EntryThreshold},
     rsi : RsiValues]

\* The entry and the exit branch of next().
NextTrade(d) ==
    IF LooksForEntry
    THEN LET e == EvaluateEntry(d) IN
         /\ bar_tracking' = e.tracking
         /\ exit_decision' = "None"
         /\ data' = [close |-> IF e.enter_trade THEN d.close ELSE 0,
                     sma |-> IF bar < WarmupBars THEN 0 ELSE d.sma,
                     rsi |-> 0]
         /\ IF e.enter_trade
            THEN /\ pending' = NewOrder(strategy_type = "buy", 1, d.close)
                 /\ order' = "Order"
                 /\ order_reason' = "None"
                 /\ first_signal' = IF first_signal = 0 THEN bar
                                    ELSE first_signal
            ELSE UNCHANGED << pending, order, order_reason, first_signal >>
    ELSE LET x == ExitCheck(d)
             size == IF position < 0 THEN -position ELSE position IN
         /\ bar_tracking' = x.tracking
         /\ exit_decision' = x.reason
         /\ data' = [close |-> d.close, sma |-> 0, rsi |-> d.rsi]
         /\ UNCHANGED first_signal
         /\ IF x.exit_trade
            THEN /\ pending' = NewOrder(strategy_type # "buy", size, d.close)
                 /\ order' = "Order"
                 /\ order_reason' = x.reason
            ELSE UNCHANGED << pending, order, order_reason >>

\* self.broker.getvalue(): the cash plus the position at the close of the bar.
BrokerValue(close) == cash + position * close

\* self.equity_curve.append(value); of the list the class reads its length,
\* its last element and max(self.equity_curve).  max() keeps its first
\* element unless a later one is greater: a NaN at the head stays, a NaN
\* behind it is passed over.
AppendEquity(value) ==
    [len |-> equity_curve.len + 1,
     last |-> value,
     peak |-> IF equity_curve.len = 0 THEN value
              ELSE IF equity_curve.peak = NaN \/ value = NaN
                   THEN equity_curve.peak
                   ELSE IF value > equity_curve.peak THEN value
                        ELSE equity_curve.peak]

\* daily_return = (self.equity_curve[-1] / self.equity_curve[-2]) - 1, or 0
\* for the first point, appended to self.returns.
AppendReturn(curve) ==
    LET isnan == curve.len > 1 /\ (curve.last = NaN \/ equity_curve.last = NaN)
        nonzero == curve.len > 1 /\ ~isnan /\ curve.last # equity_curve.last
    IN [len |-> returns.len + 1,
        nan |-> returns.nan \/ isnan,
        nonzero |-> returns.nonzero \/ nonzero]

\* drawdown = (peak - self.equity_curve[-1]) / peak * 100
Drawdown(curve) == << (curve.peak - curve.last) * 100, curve.peak >>
DrawdownIsNaN(curve) == curve.peak = NaN \/ curve.last = NaN
\* max(self.max_drawdown, drawdown)
MaxOf(p, q) == IF q[1] * p[2] > p[1] * q[2] THEN q ELSE p

\* np.std(returns_array): NaN with a NaN return; 0 when all returns are
\* equal, that is 0 as the first return is; positive otherwise.
StdDev(rets) ==
    IF rets.nan THEN "nan" ELSE IF rets.nonzero THEN "positive" ELSE "zero"

\* A plausible slip: the ratio is computed whatever the deviation is; numpy
\* divides 0 by 0 to NaN and carries a NaN on.
SharpeUnguarded(rets) ==
    IF StdDev(rets) = "positive" THEN "finite" ELSE "nan"

\* np.mean(returns_array) / std_dev * np.sqrt(252) if std_dev > 0 and it is
\* not NaN, else 0.
Sharpe(rets) ==
    IF StdDev(rets) = "positive" THEN "finite" ELSE "0"

\* The head of next(): the equity point, the return, the drawdown and the
\* Sharpe ratio of the bar.
UpdateMetrics(value) ==
    /\ equity_curve' = AppendEquity(value)
    /\ returns' = AppendReturn(equity_curve')
    /\ max_drawdown' = IF equity_curve'.len > 1 /\ ~DrawdownIsNaN(equity_curve')
                        THEN MaxOf(max_drawdown, Drawdown(equity_curve'))
                        ELSE max_drawdown
    /\ sharpe_ratio' = IF returns'.len > 1 THEN Sharpe(returns')
                        ELSE sharpe_ratio

\* next() on bar d: called once per bar after the notifications of that bar.
NextOn(d) ==
    IF order # "None"
    THEN /\ data' = NoData
         /\ UNCHANGED << pending, order, bar_tracking, exit_decision,
                         order_reason, first_signal, metricVars >>
    ELSE /\ UpdateMetrics(BrokerValue(d.close))
         /\ NextTrade(d)

\* next() is called with one of `bars` as the current bar.
nextOf(bars) ==
    /\ pc = "bar"
    /\ pending.status = "None"
    /\ pc' = "feed"
    /\ \E d \in bars : NextOn(d)
    /\ UNCHANGED << strategy_type, bar, cash, position, opened, closed,
                    buyprice, current_trade, trades, position_entry_bar,
                    position_tracking, decided, pureVars >>

next == nextOf(Bars)

\* ------------------------------------------------------------ the run loop
\* The data feed, of `length` bars, delivers the next bar.
FeedOf(length) ==
    /\ pc = "feed"
    /\ bar < length
    /\ bar' = bar + 1
    /\ data' = NoData
    /\ exit_decision' = "None"
    /\ pc' = "bar"
    /\ UNCHANGED << strategy_type, brokerVars, strategyVars, bar_tracking,
                    metricVars, historyVars, pureVars >>

Feed == FeedOf(MaxBars)

\* The data feed, of `length` bars, is exhausted: the run returns.
FinishOf(length) ==
    /\ pc = "feed"
    /\ bar = length
    /\ pc' = "done"
    /\ UNCHANGED << strategy_type, bar, brokerVars, strategyVars, evalVars,
                    metricVars, historyVars, pureVars >>

Finish == FinishOf(MaxBars)

Next ==
    \/ Feed
    \/ BrokerSubmit
    \/ BrokerAccept
    \/ BrokerMargin
    \/ BrokerExecute
    \/ next
    \/ Finish

Spec == Init /\ [][Next]_vars

\* ------------------------------------------------- the stop-loss scenario
\* A long strategy on a feed of ScenarioBars bars that open and close at 100,
\* except that bar 60 closes at 90; sma stays below its threshold, so the
\* entry condition is true on every bar, and rsi stays below its own.
ScenarioBar ==
    [close |-> IF bar = 60 THEN 90 ELSE 100, sma |-> 200, rsi |-> 50]
ScenarioOpens == {100}
\* A capital that one share at 100 uses up, and the default.
ScenarioCapitals == {100, 100000}

InitScenario ==
    /\ strategy_type = "buy"
    /\ bar = 0
    /\ pc = "feed"
    /\ cash \in ScenarioCapitals
    /\ position = 0
    /\ pending = NoPending
    /\ opened = 0
    /\ closed = 0
    /\ order = "None"
    /\ buyprice = None
    /\ current_trade = UnsetTrade
    /\ trades = << >>
    /\ position_entry_bar = None
    /\ position_tracking = << >>
    /\ equity_curve = NoEquity
    /\ max_drawdown = << 0, 1 >>
    /\ returns = NoReturns
    /\ sharpe_ratio = "0"
    /\ bar_tracking = NoTracking
    /\ data = NoData
    /\ exit_decision = "None"
    /\ order_reason = "None"
    /\ decided = << >>
    /\ first_signal = 0
    /\ calc = NoCalc
    /\ conditions = << >>
    /\ attributes = {}
    /\ lines = << >>
    /\ evaluation = NoEvaluation
    /\ form = NoForm
    /\ errors = {}
    /\ strategyData = NoStrategy
    /\ NoTuner
    /\ NoKite
    /\ NoDates
    /\ NoReplay

ScenarioFeed == FeedOf(ScenarioBars)
ScenarioExecute == BrokerExecuteAt(ScenarioOpens)
ScenarioNext == nextOf({ScenarioBar})
ScenarioFinish == FinishOf(ScenarioBars)

\* The cash of the scenario always pays the share, so no order meets Margin.
NextScenario ==
    \/ ScenarioFeed
    \/ BrokerSubmit
    \/ BrokerAccept
    \/ ScenarioExecute
    \/ ScenarioNext
    \/ ScenarioFinish

SpecScenario == InitScenario /\ [][NextScenario]_vars

\* ------------------------------------------- the profit formulas on their own
\* SpecRisk applies the two profit computations of the class to every
\* direction, price and entry price up to MaxPrice.
InitRisk ==
    /\ strategy_type \in StrategyTypes
    /\ bar = 0
    /\ pc = "calc"
    /\ cash = 0
    /\ position = 0
    /\ pending = NoPending
    /\ opened = 0
    /\ closed = 0
    /\ order = "None"
    /\ buyprice = None
    /\ current_trade = UnsetTrade
    /\ trades = << >>
    /\ position_entry_bar = None
    /\ position_tracking = << >>
    /\ equity_curve = NoEquity
    /\ max_drawdown = << 0, 1 >>
    /\ returns = NoReturns
    /\ sharpe_ratio = "0"
    /\ bar_tracking = NoTracking
    /\ data = NoData
    /\ exit_decision = "None"
    /\ order_reason = "None"
    /\ decided = << >>
    /\ first_signal = 0
    /\ calc = NoCalc
    /\ conditions = << >>
    /\ attributes = {}
    /\ lines = << >>
    /\ evaluation = NoEvaluation
    /\ form = NoForm
    /\ errors = {}
    /\ strategyData = NoStrategy
    /\ NoTuner
    /\ NoKite
    /\ NoDates
    /\ NoReplay

CalcProfit ==
    /\ pc = "calc"
    /\ \E price \in 1..MaxPrice, entry_price \in 1..MaxPrice :
        calc' = [tag |-> "done", type |-> strategy_type, price |-> price,
                 entry_price |-> entry_price,
                 risk |-> RiskProfitPct(strategy_type, price, entry_price),
                 loss |-> RiskLossPct(strategy_type, price, entry_price),
                 trade |-> TradeProfitPct(strategy_type, price, entry_price)]
    /\ UNCHANGED << strategy_type, bar, pc, brokerVars, strategyVars, evalVars,
                    metricVars, historyVars, evaluatorVars, formVars,
                    replayVars, dateVars, tunerVars, kiteAllVars >>

NextRisk == CalcProfit

SpecRisk == InitRisk /\ [][NextRisk]_vars

\* ------------------------------------------- the condition loop on its own
\* SpecEval builds a strategy object for every list of up to MaxConditions
\* comparison conditions and applies the condition loop to a bar.
\* The operators the form offers and the class compares by, and one neither
\* of them knows.
EvalComparisons == {"=", ">", "<", ">=", "<=", "!=", "==", "<>"}
EvalVariables == {VarSma, VarRsi, VarDashed, VarDigit}
EvalConditions ==
    [indicator : {"SMA"}, comparison : EvalComparisons,
     variable : EvalVariables, threshold : {EntryThreshold}]
EvalLists ==
    UNION { [1..n -> EvalConditions] : n \in 1..MaxConditions }
\* The indicator lines of a bar: sma below, at and above the threshold or
\* NaN; the feed has no line rsi.
EvalLines ==
    { (VarSma :> a) @@ (VarUnderscored :> b) :
        a \in {200, EntryThreshold, 210, NaN}, b \in {200, 210} }

InitEval ==
    /\ strategy_type = "buy"
    /\ bar = 0
    /\ pc = "new"
    /\ cash = 0
    /\ position = 0
    /\ pending = NoPending
    /\ opened = 0
    /\ closed = 0
    /\ order = "None"
    /\ buyprice = None
    /\ current_trade = UnsetTrade
    /\ trades = << >>
    /\ position_entry_bar = None
    /\ position_tracking = << >>
    /\ equity_curve = NoEquity
    /\ max_drawdown = << 0, 1 >>
    /\ returns = NoReturns
    /\ sharpe_ratio = "0"
    /\ bar_tracking = NoTracking
    /\ data = NoData
    /\ exit_decision = "None"
    /\ order_reason = "None"
    /\ decided = << >>
    /\ first_signal = 0
    /\ calc = NoCalc
    /\ conditions \in EvalLists
    /\ attributes = {}
    /\ lines = << >>
    /\ evaluation = NoEvaluation
    /\ form = NoForm
    /\ errors = {}
    /\ strategyData = NoStrategy
    /\ NoTuner
    /\ NoKite
    /\ NoDates
    /\ NoReplay

\* CustomStrategy.__init__: the conditions are stored as they are; a name
\* that is not an identifier is logged and skipped, a variable that is no
\* line of the feed is logged: nothing is raised.
Construct ==
    /\ pc = "new"
    /\ attributes' = InitializedVariables(conditions)
    /\ pc' = "ready"
    /\ UNCHANGED << strategy_type, bar, brokerVars, strategyVars, evalVars,
                    metricVars, historyVars, calc, conditions, lines,
                    evaluation, formVars, replayVars, dateVars, tunerVars, kiteAllVars >>

\* The condition loop of _evaluate_entry_conditions ("entry") or of
\* _evaluate_exit_conditions ("exit") on one bar.
EvaluateBar ==
    /\ pc = "ready"
    /\ \E ls \in EvalLines, type \in {"entry", "exit"} :
        /\ lines' = ls
        /\ evaluation' = [tag |-> "done", type |-> type,
                          flag |-> ConditionLoop(conditions, ls, type).flag,
                          trace |-> ConditionLoop(conditions, ls, type).trace]
    /\ pc' = "evaluated"
    /\ UNCHANGED << strategy_type, bar, brokerVars, strategyVars, evalVars,
                    metricVars, historyVars, calc, conditions, attributes,
                    formVars, replayVars, dateVars, tunerVars, kiteAllVars >>

NextEval ==
    \/ Construct
    \/ EvaluateBar

SpecEval == InitEval /\ [][NextEval]_vars

\* ------------------------------------------------- the engine run twice
\* SpecReplay runs the engine on a bar stream and, when the run has returned,
\* once more from a new strategy object on the same stream.  The bars of
\* ReplayWindow are any; the others are flat and give no signal.
ReplayWindow == WarmupBars..(WarmupBars + 2)
ReplayBar == [open : Prices, close : Prices, sma : SmaValues, rsi : {50}]
FlatBar == [open |-> 100, close |-> 100, sma |-> 210, rsi |-> 50]
ReplayStreams == [capital : Capitals, bars : [ReplayWindow -> ReplayBar]]

\* The current bar of the stream.
StreamBar == IF bar \in ReplayWindow THEN stream.bars[bar] ELSE FlatBar
StreamData == {[close |-> StreamBar.close, sma |-> StreamBar.sma,
                rsi |-> StreamBar.rsi]}

\* What a run returns: the trades, the position tracking, the equity curve
\* and the metrics, and whether it returned at all.
Result ==
    [pc |-> pc, trades |-> trades, position_tracking |-> position_tracking,
     equity_curve |-> equity_curve, max_drawdown |-> max_drawdown,
     returns |-> returns, sharpe_ratio |-> sharpe_ratio]

InitReplay ==
    /\ strategy_type \in StrategyTypes
    /\ stream \in ReplayStreams
    /\ cash = stream.capital
    /\ run = 1
    /\ first_result = NoResult
    /\ bar = 0
    /\ pc = "feed"
    /\ position = 0
    /\ pending = NoPending
    /\ opened = 0
    /\ closed = 0
    /\ order = "None"
    /\ buyprice = None
    /\ current_trade = UnsetTrade
    /\ trades = << >>
    /\ position_entry_bar = None
    /\ position_tracking = << >>
    /\ equity_curve = NoEquity
    /\ max_drawdown = << 0, 1 >>
    /\ returns = NoReturns
    /\ sharpe_ratio = "0"
    /\ bar_tracking = NoTracking
    /\ data = NoData
    /\ exit_decision = "None"
    /\ order_reason = "None"
    /\ decided = << >>
    /\ first_signal = 0
    /\ calc = NoCalc
    /\ conditions = << >>
    /\ attributes = {}
    /\ lines = << >>
    /\ evaluation = NoEvaluation
    /\ form = NoForm
    /\ errors = {}
    /\ strategyData = NoStrategy
    /\ NoTuner
    /\ NoKite
    /\ NoDates

\* The first run has returned or raised: its result is kept, and cerebro is
\* set up again with the same capital, strategy and feed.
Rerun ==
    /\ run = 1
    /\ pc \in {"done", "raised"}
    /\ first_result' = Result
    /\ run' = 2
    /\ cash' = stream.capital
    /\ bar' = 0
    /\ pc' = "feed"
    /\ position' = 0
    /\ pending' = NoPending
    /\ opened' = 0
    /\ closed' = 0
    /\ order' = "None"
    /\ buyprice' = None
    /\ current_trade' = UnsetTrade
    /\ trades' = << >>
    /\ position_entry_bar' = None
    /\ position_tracking' = << >>
    /\ equity_curve' = NoEquity
    /\ max_drawdown' = << 0, 1 >>
    /\ returns' = NoReturns
    /\ sharpe_ratio' = "0"
    /\ bar_tracking' = NoTracking
    /\ data' = NoData
    /\ exit_decision' = "None"
    /\ order_reason' = "None"
    /\ decided' = << >>
    /\ first_signal' = 0
    /\ UNCHANGED << strategy_type, stream, calc, evaluatorVars, formVars,
                    dateVars, tunerVars, kiteAllVars >>

ReplayFeed == FeedOf(ReplayLength)
ReplayMargin == BrokerMarginAt({StreamBar.open})
ReplayExecute == BrokerExecuteAt({StreamBar.open})
ReplayNext == nextOf(StreamData)
ReplayFinish == FinishOf(ReplayLength)

NextReplay ==
    \/ ReplayFeed
    \/ BrokerSubmit
    \/ BrokerAccept
    \/ ReplayMargin
    \/ ReplayExecute
    \/ ReplayNext
    \/ ReplayFinish
    \/ Rerun

SpecReplay == InitReplay /\ [][NextReplay]_vars

\* ------------------------------------------------------ the dates sent
\* A Date is an instant: the minutes since 2022-01-01T00:00Z.  The years
\* 2021 to 2023 have 365 days each.
MinutesPerDay == 1440
DaysPerYear == 365
EpochYear == 2022
MonthLengths == << 31, 28, 31, 30, 31, 30, 31, 31, 30, 31, 30, 31 >>

RECURSIVE MonthOf(_, _)
\* The month (1..12) and the day of the month of day `yday` (0..364) of a year.
MonthOf(yday, month) ==
    IF yday < MonthLengths[month]
    THEN [month |-> month, day |-> yday + 1]
    ELSE MonthOf(yday - MonthLengths[month], month + 1)

\* The calendar day that holds minute `minutes`.
CivilDay(minutes) ==
    LET days == minutes \div MinutesPerDay
        md == MonthOf(days % DaysPerYear, 1)
    IN [year |-> EpochYear + (days \div DaysPerYear), month |-> md.month,
        day |-> md.day, hours |-> (minutes % MinutesPerDay) \div 60,
        minutes |-> (minutes % MinutesPerDay) % 60]

\* new Date(...) of local day `day` (days since 2022-01-01) at `minute` of it.
NewLocalDate(day, minute) == day * MinutesPerDay + minute + timezoneOffset
\* date.getFullYear(), date.getMonth() + 1, date.getDate()
LocalComponents(date) == CivilDay(date - timezoneOffset)
\* date.getUTCFullYear(), ...
UTCComponents(date) == CivilDay(date)

DigitChars == << "0", "1", "2", "3", "4", "5", "6", "7", "8", "9" >>
RECURSIVE String(_)
\* String(n) of a natural number.
String(n) ==
    IF n < 10 THEN << DigitChars[n + 1] >>
    ELSE String(n \div 10) \o << DigitChars[(n % 10) + 1] >>
RECURSIVE PadStart(_, _, _)
\* str.padStart(length, fill)
PadStart(str, length, fill) ==
    IF Len(str) >= length THEN str ELSE PadStart(<< fill >> \o str, length, fill)

\* formatLocalDate(date): '' for what is no Date, else the local components
\* year-month-day, month and day padded to two digits.
formatLocalDate(date) ==
    IF date = None THEN << >>
    ELSE LET c == LocalComponents(date)
             year == String(c.year)
             month == PadStart(String(c.month), 2, "0")
             day == PadStart(String(c.day), 2, "0")
         IN year \o << "-" >> \o month \o << "-" >> \o day

\* date.toISOString(): YYYY-MM-DDTHH:mm:ss.sssZ of the UTC components.
ToISOString(date) ==
    LET c == UTCComponents(date)
    IN PadStart(String(c.year), 4, "0") \o << "-" >>
       \o PadStart(String(c.month), 2, "0") \o << "-" >>
       \o PadStart(String(c.day), 2, "0") \o << "T" >>
       \o PadStart(String(c.hours), 2, "0") \o << ":" >>
       \o PadStart(String(c.minutes), 2, "0")
       \o << ":", "0", "0", ".", "0", "0", "0", "Z" >>

RECURSIVE SplitHead(_, _)
\* str.split(separator)[0]
SplitHead(str, separator) ==
    IF str = << >> \/ Head(str) = separator THEN << >>
    ELSE << Head(str) >> \o SplitHead(Tail(str), separator)

\* The browsers: India, UTC, the west coast of America.
TimezoneOffsets == {-330, 0, 480}
\* The days a user selects: 2022-12-31, 2023-01-01, 2023-04-15.
SelectedDays == {364, 365, 469}
\* The time of day of a Date: midnight from the date picker; 9:30, 21:30
\* and 23:30 in dateUtils.test.js.
SelectedMinutes == {0, 570, 1290, 1410}
DateCapitals == {0, 100000}

InitDate ==
    /\ timezoneOffset \in TimezoneOffsets
    /\ \E start \in SelectedDays, span \in {0, 1}, minute \in SelectedMinutes,
          capital \in DateCapitals, noEnd \in BOOLEAN :
         dateForm = [initialCapital |-> capital,
                     start |-> start, end |-> start + span, minute |-> minute,
                     startDate |-> NewLocalDate(start, minute),
                     endDate |-> IF noEnd THEN None
                                 ELSE NewLocalDate(start + span, minute)]
    /\ formatted = << >>
    /\ backtestData = NoBacktestData
    /\ strategy_type \in StrategyTypes
    /\ bar = 0
    /\ pc = "dates"
    /\ cash \in Capitals
    /\ position = 0
    /\ pending = NoPending
    /\ opened = 0
    /\ closed = 0
    /\ order = "None"
    /\ buyprice = None
    /\ current_trade = UnsetTrade
    /\ trades = << >>
    /\ position_entry_bar = None
    /\ position_tracking = << >>
    /\ equity_curve = NoEquity
    /\ max_drawdown = << 0, 1 >>
    /\ returns = NoReturns
    /\ sharpe_ratio = "0"
    /\ bar_tracking = NoTracking
    /\ data = NoData
    /\ exit_decision = "None"
    /\ order_reason = "None"
    /\ decided = << >>
    /\ first_signal = 0
    /\ calc = NoCalc
    /\ conditions = << >>
    /\ attributes = {}
    /\ lines = << >>
    /\ evaluation = NoEvaluation
    /\ form = NoForm
    /\ errors = {}
    /\ strategyData = NoStrategy
    /\ NoTuner
    /\ NoKite
    /\ NoReplay

\* The errors handleSubmit of BacktestParameters finds.
BacktestFormErrors ==
    (IF dateForm.initialCapital <= 0 THEN {"initialCapital"} ELSE {})
    \cup (IF dateForm.startDate = None THEN {"startDate"} ELSE {})
    \cup (IF dateForm.endDate = None THEN {"endDate"} ELSE {})
    \cup (IF dateForm.startDate # None /\ dateForm.endDate # None
              /\ dateForm.startDate >= dateForm.endDate
           THEN {"dateRange"} ELSE {})

\* BacktestParameters.handleSubmit: the form is validated; the dates are
\* formatted with toISOString().split('T')[0] and passed to onSubmit.
BacktestHandleSubmit ==
    /\ pc = "dates"
    /\ IF BacktestFormErrors # {}
       THEN /\ errors' = BacktestFormErrors
            /\ pc' = "rejected"
            /\ UNCHANGED backtestData
       ELSE /\ backtestData' =
                 [initial_capital |-> dateForm.initialCapital,
                  start_date |-> SplitHead(ToISOString(dateForm.startDate), "T"),
                  end_date |-> SplitHead(ToISOString(dateForm.endDate), "T")]
            /\ pc' = "submitted"
            /\ UNCHANGED errors
    /\ UNCHANGED << strategy_type, bar, brokerVars, strategyVars, evalVars,
                    metricVars, historyVars, calc, evaluatorVars, form,
                    strategyData, replayVars, timezoneOffset, dateForm,
                    formatted, tunerVars, kiteAllVars >>

\* formatLocalDate is called with the start and the end date of the form.
FormatLocalDates ==
    /\ pc = "dates"
    /\ formatted' = << formatLocalDate(dateForm.startDate),
                       formatLocalDate(dateForm.endDate) >>
    /\ pc' = "formatted"
    /\ UNCHANGED << strategy_type, bar, brokerVars, strategyVars, evalVars,
                    metricVars, historyVars, calc, evaluatorVars, formVars,
                    replayVars, timezoneOffset, dateForm, backtestData,
                    tunerVars, kiteAllVars >>

NextDate ==
    \/ BacktestHandleSubmit
    \/ FormatLocalDates

SpecDate == InitDate /\ [][NextDate]_vars

\* ----------------------------------------------------- StrategyTuner
PollInterval == 2000
MaxPollAttempts == 5
MaxPollRetries == 3
MaxRetryDelay == 10000
HourMs == 3600000
istOffset == 330

RECURSIVE Pow(_, _)
\* Math.pow(base, n) for a natural n.
Pow(base, n) == IF n = 0 THEN 1 ELSE base * Pow(base, n - 1)
Min(a, b) == IF a < b THEN a ELSE b
\* Math.min(2000 * Math.pow(1.5, attempts), 10000), in whole milliseconds.
RetryDelay(attempts) ==
    Min((PollInterval * Pow(3, attempts)) \div Pow(2, attempts), MaxRetryDelay)
\* 2000 * Math.pow(2, retries)
ErrorDelay(retries) == PollInterval * Pow(2, retries)

\* What the backend may answer to a save, backtest or optimization request:
\* success, success false, or an error axios throws.
Responses == {"success", "failure", "throws"}
\* The status values pollOptimizationStatus knows and one it does not.
RunningStatuses == {"running", "running iteration", "starting"}
Statuses == RunningStatuses \cup {"completed", "failed", "error", "pending"}
\* What getOptimizationStatus may return: a status, success false (also for
\* every error axios throws), or a body that is null.
StatusResponses == Statuses \cup {"failure", "null"}

\* The message passed to setError: response.error (or a text that stands in
\* for it) after success false, err.message (or its stand-in) in a catch.
ErrorOf(response) ==
    IF response = "failure" THEN "response.error" ELSE "err.message"

\* A plausible slip: polling goes on for every status but 'completed'.
StillRunningUnlessCompleted(status) == status # "completed"
\* response.status.status is 'running', 'running iteration' or 'starting'.
StillRunning(status) == status \in RunningStatuses

\* A plausible slip: the tab is advanced whatever the response says.
AdvancesAlways(response) == TRUE
\* if (response.success)
Advances(response) == response = "success"

\* The onClick of the four tab buttons, each but the first disabled until
\* what it shows exists.
TabEnabled(tab) ==
    CASE tab = "strategy" -> TRUE
      [] tab = "backtest" -> strategy_id
      [] tab = "tuning" -> backtestResults # "null"
      [] tab = "results" -> optimizationResults # "null"

ClickTab ==
    /\ pc = "tuner"
    /\ \E tab \in {"strategy", "backtest", "tuning", "results"} :
         /\ TabEnabled(tab)
         /\ tab # activeTab
         /\ activeTab' = tab
    /\ UNCHANGED << error, loading, strategy_id, backtestResults,
                    optimizationResults, optimizationId, optimizationStatus,
                    pollAttempts, pollRetries, polls, statusRequests,
                    resultsTimers >>

\* A handler is entered from the form of the active tab, whose button is
\* disabled while loading: setLoading(true), setError(null), and the request
\* is awaited.
Submit(tab, handler) ==
    /\ pc = "tuner"
    /\ activeTab = tab
    /\ loading = "None"
    /\ loading' = handler
    /\ error' = "null"
    /\ UNCHANGED << activeTab, strategy_id, backtestResults,
                    optimizationResults, optimizationId, optimizationStatus,
                    pollAttempts, pollRetries, polls, statusRequests,
                    resultsTimers >>

\* handleSaveStrategy up to its await.
handleSaveStrategy == Submit("strategy", "save")

\* handleSaveStrategy from the response on.
SaveStrategyResponse ==
    /\ pc = "tuner"
    /\ loading = "save"
    /\ \E response \in Responses :
         /\ IF Advances(response)
            THEN activeTab' = "backtest"
            ELSE UNCHANGED activeTab
         /\ IF response = "success"
            THEN strategy_id' = TRUE /\ UNCHANGED error
            ELSE /\ error' = ErrorOf(response)
                 /\ UNCHANGED strategy_id
    /\ loading' = "None"
    /\ UNCHANGED << backtestResults, optimizationResults, optimizationId,
                    optimizationStatus, pollAttempts, pollRetries, polls,
                    statusRequests, resultsTimers >>

\* handleRunBacktest up to its await.
handleRunBacktest == Submit("backtest", "backtest")

\* handleRunBacktest from the response on.
RunBacktestResponse ==
    /\ pc = "tuner"
    /\ loading = "backtest"
    /\ \E response \in Responses :
         /\ IF Advances(response)
            THEN activeTab' = "tuning"
            ELSE UNCHANGED activeTab
         /\ IF response = "success"
            THEN backtestResults' = "set" /\ UNCHANGED error
            ELSE /\ error' = ErrorOf(response)
                 /\ UNCHANGED backtestResults
    /\ loading' = "None"
    /\ UNCHANGED << strategy_id, optimizationResults, optimizationId,
                    optimizationStatus, pollAttempts, pollRetries, polls,
                    statusRequests, resultsTimers >>

\* The optimizations started so far.
Started == {id \in OptimizationIds : polls[id].state # "none"}

\* handleRunOptimization up to its await; the button is also disabled once
\* the status is 'completed'.
RunOptimization(limit) ==
    /\ optimizationStatus # "completed"
    /\ Cardinality(Started) < limit
    /\ statusRequests < MaxPolls
    /\ Submit("tuning", "optimization")

handleRunOptimization == RunOptimization(MaxOptimizations)

\* handleRunOptimization from the response on: with success the id and the
\* response are stored and pollOptimizationStatus is called, which issues
\* the first status request.
RunOptimizationResponse ==
    /\ pc = "tuner"
    /\ loading = "optimization"
    /\ \E response \in Responses :
         IF response = "success"
         THEN LET id == Cardinality(Started) + 1
              IN /\ optimizationId' = id
                 /\ optimizationResults' = "started"
                 /\ polls' = [polls EXCEPT ![id].state = "request"]
                 /\ statusRequests' = statusRequests + 1
                 /\ UNCHANGED error
         ELSE /\ error' = ErrorOf(response)
              /\ UNCHANGED << optimizationId, optimizationResults, polls,
                              statusRequests >>
    /\ loading' = "None"
    /\ UNCHANGED << activeTab, strategy_id, backtestResults,
                    optimizationStatus, pollAttempts, pollRetries,
                    resultsTimers >>

\* The end of polling of optimization id.
Ended(id) == [polls EXCEPT ![id].state = "ended", ![id].delay = 0]
\* setTimeout(() => pollOptimizationStatus(optimizationId), delay)
Scheduled(id, delay) ==
    [polls EXCEPT ![id].state = "timer", ![id].delay = delay]

\* pollOptimizationStatus(id) from the response of getOptimizationStatus on.
pollOptimizationStatus(id) ==
    /\ pc = "tuner"
    /\ polls[id].state = "request"
    /\ \E response \in StatusResponses :
         CASE response \in Statuses ->
                /\ optimizationStatus' = response
                /\ IF StillRunning(response)
                   THEN /\ polls' = Scheduled(id, PollInterval)
                        /\ UNCHANGED << optimizationResults, resultsTimers, error >>
                   ELSE IF response = "completed"
                   THEN /\ optimizationResults' = "compared"
                        /\ resultsTimers' = resultsTimers \cup {id}
                        /\ polls' = Ended(id)
                        /\ UNCHANGED error
                   ELSE IF response \in {"failed", "error"}
                   THEN /\ error' = "Optimization failed"
                        /\ polls' = Ended(id)
                        /\ UNCHANGED << optimizationResults, resultsTimers >>
                   ELSE /\ polls' = Ended(id)
                        /\ UNCHANGED << optimizationResults, resultsTimers, error >>
                /\ UNCHANGED << pollAttempts, pollRetries >>
           [] response = "failure" ->
                /\ IF pollAttempts + 1 <= MaxPollAttempts
                   THEN /\ pollAttempts' = pollAttempts + 1
                        /\ polls' = Scheduled(id, RetryDelay(pollAttempts + 1))
                        /\ UNCHANGED error
                   ELSE /\ pollAttempts' = 0
                        /\ error' = ErrorOf("failure")
                        /\ polls' = Ended(id)
                /\ UNCHANGED << optimizationStatus, optimizationResults,
                                resultsTimers, pollRetries >>
           [] response = "null" ->
                /\ IF pollRetries + 1 <= MaxPollRetries
                   THEN /\ pollRetries' = pollRetries + 1
                        /\ polls' = Scheduled(id, ErrorDelay(pollRetries + 1))
                        /\ UNCHANGED error
                   ELSE /\ pollRetries' = 0
                        /\ error' = ErrorOf("throws")
                        /\ polls' = Ended(id)
                /\ UNCHANGED << optimizationStatus, optimizationResults,
                                resultsTimers, pollAttempts >>
    /\ UNCHANGED << activeTab, loading, strategy_id, backtestResults,
                    optimizationId, statusRequests >>

\* The setTimeout of polling fires: pollOptimizationStatus(id) is called and
\* issues the next status request.
PollTimeout(id) ==
    /\ pc = "tuner"
    /\ polls[id].state = "timer"
    /\ statusRequests < MaxPolls
    /\ polls' = [polls EXCEPT ![id].state = "request", ![id].delay = 0]
    /\ statusRequests' = statusRequests + 1
    /\ UNCHANGED << activeTab, error, loading, strategy_id, backtestResults,
                    optimizationResults, optimizationId, optimizationStatus,
                    pollAttempts, pollRetries, resultsTimers >>

\* The 500 ms setTimeout of a completed optimization fires.
ResultsTimeout(id) ==
    /\ pc = "tuner"
    /\ id \in resultsTimers
    /\ activeTab' = "results"
    /\ resultsTimers' = resultsTimers \ {id}
    /\ UNCHANGED << error, loading, strategy_id, backtestResults,
                    optimizationResults, optimizationId, optimizationStatus,
                    pollAttempts, pollRetries, polls, statusRequests >>

InitTuner ==
    /\ StartTuner
    /\ strategy_type = "buy"
    /\ bar = 0
    /\ pc = "tuner"
    /\ cash = 100000
    /\ position = 0
    /\ pending = NoPending
    /\ opened = 0
    /\ closed = 0
    /\ order = "None"
    /\ buyprice = None
    /\ current_trade = UnsetTrade
    /\ trades = << >>
    /\ position_entry_bar = None
    /\ position_tracking = << >>
    /\ equity_curve = NoEquity
    /\ max_drawdown = << 0, 1 >>
    /\ returns = NoReturns
    /\ sharpe_ratio = "0"
    /\ bar_tracking = NoTracking
    /\ data = NoData
    /\ exit_decision = "None"
    /\ order_reason = "None"
    /\ decided = << >>
    /\ first_signal = 0
    /\ calc = NoCalc
    /\ conditions = << >>
    /\ attributes = {}
    /\ lines = << >>
    /\ evaluation = NoEvaluation
    /\ form = NoForm
    /\ errors = {}
    /\ strategyData = NoStrategy
    /\ NoReplay
    /\ NoDates
    /\ NoKite

engineVars == << strategy_type, bar, pc, brokerVars, strategyVars, evalVars,
                metricVars, historyVars, calc, evaluatorVars, formVars,
                replayVars, dateVars, kiteAllVars >>

NextTuner ==
    \/ ClickTab /\ UNCHANGED engineVars
    \/ handleSaveStrategy /\ UNCHANGED engineVars
    \/ SaveStrategyResponse /\ UNCHANGED engineVars
    \/ handleRunBacktest /\ UNCHANGED engineVars
    \/ RunBacktestResponse /\ UNCHANGED engineVars
    \/ handleRunOptimization /\ UNCHANGED engineVars
    \/ RunOptimizationResponse /\ UNCHANGED engineVars
    \/ \E id \in OptimizationIds : pollOptimizationStatus(id) /\ UNCHANGED engineVars
    \/ \E id \in OptimizationIds : PollTimeout(id) /\ UNCHANGED engineVars
    \/ \E id \in OptimizationIds : ResultsTimeout(id) /\ UNCHANGED engineVars

SpecTuner == InitTuner /\ [][NextTuner]_vars

\* SpecRuns starts on the 'tuning' tab of a saved strategy whose backtest
\* has been run, and lets the Start Optimization button be used MaxRuns
\* times.
InitRuns ==
    /\ activeTab = "tuning"
    /\ error = "null"
    /\ loading = "None"
    /\ strategy_id = TRUE
    /\ backtestResults = "set"
    /\ optimizationResults = "null"
    /\ optimizationId = 0
    /\ optimizationStatus = "null"
    /\ pollAttempts = 0
    /\ pollRetries = 0
    /\ polls = [id \in OptimizationIds |-> NoPoll]
    /\ statusRequests = 0
    /\ resultsTimers = {}
    /\ strategy_type = "buy"
    /\ bar = 0
    /\ pc = "tuner"
    /\ cash = 100000
    /\ position = 0
    /\ pending = NoPending
    /\ opened = 0
    /\ closed = 0
    /\ order = "None"
    /\ buyprice = None
    /\ current_trade = UnsetTrade
    /\ trades = << >>
    /\ position_entry_bar = None
    /\ position_tracking = << >>
    /\ equity_curve = NoEquity
    /\ max_drawdown = << 0, 1 >>
    /\ returns = NoReturns
    /\ sharpe_ratio = "0"
    /\ bar_tracking = NoTracking
    /\ data = NoData
    /\ exit_decision = "None"
    /\ order_reason = "None"
    /\ decided = << >>
    /\ first_signal = 0
    /\ calc = NoCalc
    /\ conditions = << >>
    /\ attributes = {}
    /\ lines = << >>
    /\ evaluation = NoEvaluation
    /\ form = NoForm
    /\ errors = {}
    /\ strategyData = NoStrategy
    /\ NoReplay
    /\ NoDates
    /\ NoKite

NextRuns ==
    \/ ClickTab /\ UNCHANGED engineVars
    \/ RunOptimization(MaxRuns) /\ UNCHANGED engineVars
    \/ RunOptimizationResponse /\ UNCHANGED engineVars
    \/ \E id \in OptimizationIds : pollOptimizationStatus(id) /\ UNCHANGED engineVars
    \/ \E id \in OptimizationIds : PollTimeout(id) /\ UNCHANGED engineVars
    \/ \E id \in OptimizationIds : ResultsTimeout(id) /\ UNCHANGED engineVars

SpecRuns == InitRuns /\ [][NextRuns]_vars

\* ------------------------------------------ the head of next() on its own
\* SpecMetrics applies the head of next() to every series of up to
\* MaxMetricBars portfolio values, NaN (the value of a position at a close
\* that is NaN) among them.
MetricValues == {90, 100, 110, NaN}

InitMetrics ==
    /\ strategy_type = "buy"
    /\ bar = 0
    /\ pc = "metrics"
    /\ cash = 0
    /\ position = 0
    /\ pending = NoPending
    /\ opened = 0
    /\ closed = 0
    /\ order = "None"
    /\ buyprice = None
    /\ current_trade = UnsetTrade
    /\ trades = << >>
    /\ position_entry_bar = None
    /\ position_tracking = << >>
    /\ equity_curve = NoEquity
    /\ max_drawdown = << 0, 1 >>
    /\ returns = NoReturns
    /\ sharpe_ratio = "0"
    /\ bar_tracking = NoTracking
    /\ data = NoData
    /\ exit_decision = "None"
    /\ order_reason = "None"
    /\ decided = << >>
    /\ first_signal = 0
    /\ calc = NoCalc
    /\ conditions = << >>
    /\ attributes = {}
    /\ lines = << >>
    /\ evaluation = NoEvaluation
    /\ form = NoForm
    /\ errors = {}
    /\ strategyData = NoStrategy
    /\ NoTuner
    /\ NoKite
    /\ NoDates
    /\ NoReplay

\* The head of next() on one bar.
MetricsBar ==
    /\ pc = "metrics"
    /\ bar < MaxMetricBars
    /\ bar' = bar + 1
    /\ \E value \in MetricValues : UpdateMetrics(value)
    /\ UNCHANGED << strategy_type, pc, brokerVars, strategyVars, evalVars,
                    historyVars, pureVars >>

NextMetrics == MetricsBar

SpecMetrics == InitMetrics /\ [][NextMetrics]_vars

\* --------------------------------------------------- the strategy form
\* The value of a form field: the empty string, a string that is no number,
\* or the string of a number.
FormNumbers == {-1, 0, 5}
FormInputs ==
    {[text |-> "empty", value |-> 0], [text |-> "word", value |-> 0]}
        \cup {[text |-> "number", value |-> v] : v \in FormNumbers}

\* !v, isNaN(v) and parseFloat(v) of JavaScript on such a value; Number('')
\* is 0 and parseFloat('') is NaN, and NaN <= 0 is false.
Falsy(v) == v.text = "empty"
IsNaN(v) == v.text = "word"
ParseFloat(v) ==
    IF v.text = "number" THEN [nan |-> FALSE, value |-> v.value]
    ELSE [nan |-> TRUE, value |-> 0]
NotAboveZero(x) == ~x.nan /\ x.value <= 0

\* A plausible slip: zero passes the check of a percentage.
PercentageInvalidBelowZero(v) ==
    Falsy(v) \/ IsNaN(v) \/ (~ParseFloat(v).nan /\ ParseFloat(v).value < 0)

\* !stopLoss || isNaN(stopLoss) || parseFloat(stopLoss) <= 0
PercentageInvalid(v) ==
    Falsy(v) \/ IsNaN(v) \/ NotAboveZero(ParseFloat(v))

\* formErrors of handleSubmit.
FormErrors(f) ==
    (IF ~f.strategyName THEN {"strategyName"} ELSE {})
        \cup (IF ~f.symbol THEN {"symbol"} ELSE {})
        \cup (IF ~f.timeframe THEN {"timeframe"} ELSE {})
        \cup (IF f.entryConditions = 0 THEN {"entryConditions"} ELSE {})
        \cup (IF PercentageInvalid(f.stopLoss) THEN {"stopLoss"} ELSE {})
        \cup (IF PercentageInvalid(f.targetProfit) THEN {"targetProfit"} ELSE {})

InitForm ==
    /\ strategy_type \in StrategyTypes
    /\ bar = 0
    /\ pc = "form"
    /\ cash = 0
    /\ position = 0
    /\ pending = NoPending
    /\ opened = 0
    /\ closed = 0
    /\ order = "None"
    /\ buyprice = None
    /\ current_trade = UnsetTrade
    /\ trades = << >>
    /\ position_entry_bar = None
    /\ position_tracking = << >>
    /\ equity_curve = NoEquity
    /\ max_drawdown = << 0, 1 >>
    /\ returns = NoReturns
    /\ sharpe_ratio = "0"
    /\ bar_tracking = NoTracking
    /\ data = NoData
    /\ exit_decision = "None"
    /\ order_reason = "None"
    /\ decided = << >>
    /\ first_signal = 0
    /\ calc = NoCalc
    /\ conditions = << >>
    /\ attributes = {}
    /\ lines = << >>
    /\ evaluation = NoEvaluation
    /\ form \in [tag : {"form"}, strategyName : BOOLEAN, symbol : BOOLEAN,
                  timeframe : BOOLEAN, entryConditions : 0..1,
                  stopLoss : FormInputs, targetProfit : FormInputs]
    /\ errors = {}
    /\ strategyData = NoStrategy
    /\ NoTuner
    /\ NoKite
    /\ NoDates
    /\ NoReplay

\* handleSubmit: with form errors the errors are shown and nothing is saved,
\* otherwise the strategy data is handed to onSave.
handleSubmit ==
    /\ pc = "form"
    /\ IF FormErrors(form) # {}
       THEN /\ errors' = FormErrors(form)
            /\ pc' = "rejected"
            /\ UNCHANGED strategyData
       ELSE /\ strategyData' = [tag |-> "strategy", type |-> strategy_type,
                                 stop_loss |-> ParseFloat(form.stopLoss),
                                 target_profit |-> ParseFloat(form.targetProfit)]
            /\ pc' = "saved"
            /\ UNCHANGED errors
    /\ UNCHANGED << strategy_type, bar, brokerVars, strategyVars, evalVars,
                    metricVars, historyVars, calc, evaluatorVars, form,
                    replayVars, dateVars, tunerVars, kiteAllVars >>

NextForm == handleSubmit

SpecForm == InitForm /\ [][NextForm]_vars

\* ------------------------------------------------- the Kite data source
\* SpecKite: DataSourceProvider (the version with Kite users), the
\* authentication modal of App and the token check of BacktestParameters.
\* The clock passes 15:00:00, 15:31:02, 16:00:00 and 16:40:00 IST.
DayMs == TimeOfDay(24, 0, 0)
Instants == {TimeOfDay(9, 30, 0), TimeOfDay(10, 1, 2), TimeOfDay(10, 30, 0),
             TimeOfDay(11, 10, 0)}
Providers == {"yahoo", "kite"}
KiteUser == "sushant"
\* event.origin of a message: the authentication popup, or another window.
Origins == {"popup", "other"}

\* date.getHours(), getMinutes(), getSeconds() of the Date whose time value
\* is t, read in the zone of the browser.
getHours(t) == ((t - timezoneOffset * 60000 + DayMs) \div 3600000) % 24
getMinutes(t) == ((t - timezoneOffset * 60000 + DayMs) \div 60000) % 60
getSeconds(t) == ((t + DayMs) \div 1000) % 60

getBaseProvider(providerValue) == providerValue

shouldVerifyToken ==
    LET istTime == now + (istOffset - timezoneOffset) * 60000
        isPastTradingHours ==
            \/ getHours(istTime) > 15
            \/ /\ getHours(istTime) = 15
               /\ getMinutes(istTime) >= 30
               /\ getSeconds(istTime) >= 5
    IN getBaseProvider(dataProvider) = "kite" /\ isPastTradingHours

\* A plausible slip: the check of the hour does not look at force.
CheckKiteTokenHourly(args, caller) ==
    LET userIdArg == IF Len(args) >= 1 THEN args[1] ELSE "null"
        force == IF Len(args) >= 2 THEN args[2] = "true" ELSE FALSE
        userId == IF userIdArg = "true" THEN currentKiteUser ELSE userIdArg
        skipped == lastTokenCheck # None /\ now - lastTokenCheck < HourMs
    IN /\ skipped \/ Cardinality(verifying) < MaxVerifying
       /\ tokenCheck' = [caller |-> caller, userId |-> userId, force |-> force,
                         requested |-> ~skipped,
                         returned |-> IF skipped THEN tokenValid ELSE FALSE]
       /\ verifying' = IF skipped THEN verifying
                       ELSE verifying \cup {[userId |-> userId, now |-> now]}

\* checkKiteToken(...args) with the signature (userId = null, force = false):
\* tokenCheck holds the frame of the call while the step that makes it
\* lasts, verifying the verification requests that were issued.
CheckKiteToken(args, caller) ==
    LET userIdArg == IF Len(args) >= 1 THEN args[1] ELSE "null"
        force == IF Len(args) >= 2 THEN args[2] = "true" ELSE FALSE
        userId == IF userIdArg = "true" THEN currentKiteUser ELSE userIdArg
        skipped == /\ ~force
                   /\ lastTokenCheck # None
                   /\ now - lastTokenCheck < HourMs
    IN /\ skipped \/ Cardinality(verifying) < MaxVerifying
       /\ tokenCheck' = [caller |-> caller, userId |-> userId, force |-> force,
                         requested |-> ~skipped,
                         returned |-> IF skipped THEN tokenValid ELSE FALSE]
       /\ verifying' = IF skipped THEN verifying
                       ELSE verifying \cup {[userId |-> userId, now |-> now]}

\* The effect of App on [requiresAuth, dataProvider]: it runs when one of
\* them has changed.
AppEffect(provider, auth) ==
    showAuthModal' = IF << provider, auth >> # << dataProvider, requiresAuth >>
                     THEN auth /\ getBaseProvider(provider) = "kite"
                     ELSE showAuthModal

\* fetchDataProviderInfo of the mount effect, from the response of
\* getDataProviderInfo on.
fetchDataProviderInfo ==
    /\ pc = "mount"
    /\ \E provider \in Providers :
         LET user_id == IF provider = "kite" THEN KiteUser ELSE "null"
         IN /\ dataProvider' = provider
            /\ currentKiteUser' = user_id
            /\ IF provider = "kite"
               THEN CheckKiteToken(<< user_id >>, "fetchDataProviderInfo")
               ELSE tokenCheck' = NoCheck /\ UNCHANGED verifying
            /\ AppEffect(provider, requiresAuth)
    /\ pc' = "kite"
    /\ UNCHANGED << requiresAuth, tokenValid, lastTokenCheck, now, screen,
                    providerRequest, lastReceivedMessage,
                    kiteAuthBackupSuccess >>

\* checkKiteToken from the response of verifyKiteToken on.
VerifyKiteTokenResponse ==
    /\ pc = "kite"
    /\ \E r \in verifying, response \in {"valid", "invalid", "failure", "throws"} :
         LET valid == response = "valid"
         IN /\ tokenValid' = valid
            /\ requiresAuth' = ~valid
            /\ lastTokenCheck' = IF response = "throws" THEN now ELSE r.now
            /\ currentKiteUser' =
                   IF response \in {"valid", "invalid"} /\ r.userId # "null"
                   THEN r.userId ELSE currentKiteUser
            /\ verifying' = verifying \ {r}
            /\ AppEffect(dataProvider, ~valid)
    /\ tokenCheck' = NoCheck
    /\ UNCHANGED << pc, dataProvider, now, screen, providerRequest,
                    lastReceivedMessage, kiteAuthBackupSuccess >>

\* changeDataProvider(provider, userId) up to its await.
changeDataProvider(provider, userId) ==
    /\ providerRequest = NoRequest
    /\ providerRequest' = [provider |-> provider, userId |-> userId]

\* handleProviderChange of the dropdown of App.
handleProviderChange ==
    /\ pc = "kite"
    /\ \E provider \in Providers :
         changeDataProvider(provider,
                            IF provider = "kite" THEN KiteUser ELSE "null")
    /\ UNCHANGED << pc, dataProvider, requiresAuth, tokenValid, lastTokenCheck,
                    currentKiteUser, showAuthModal, now, screen, verifying,
                    lastReceivedMessage, kiteAuthBackupSuccess >>
    /\ tokenCheck' = NoCheck

\* changeDataProvider from the response of setDataProvider on.
SetDataProviderResponse ==
    /\ pc = "kite"
    /\ providerRequest # NoRequest
    /\ \E success \in BOOLEAN, requires_auth \in BOOLEAN :
         LET provider == providerRequest.provider
         IN IF success
            THEN /\ provider = "yahoo" => ~requires_auth
                 /\ dataProvider' = provider
                 /\ currentKiteUser' = providerRequest.userId
                 /\ requiresAuth' = requires_auth
                 /\ tokenValid' = IF provider = "kite" THEN ~requires_auth
                                  ELSE tokenValid
                 /\ AppEffect(provider, requires_auth)
            ELSE /\ ~requires_auth
                 /\ UNCHANGED << dataProvider, currentKiteUser, requiresAuth,
                                 tokenValid, showAuthModal >>
    /\ providerRequest' = NoRequest
    /\ tokenCheck' = NoCheck
    /\ UNCHANGED << pc, lastTokenCheck, now, screen, verifying,
                    lastReceivedMessage, kiteAuthBackupSuccess >>

\* A message event: handleAuthMessage, and globalBackupListener, which
\* stores a success message in sessionStorage.
handleAuthMessage ==
    /\ pc = "kite"
    /\ \E origin \in Origins, status \in {"success", "failed"},
          user_id \in {"null", KiteUser} :
         LET userId == IF user_id # "null" THEN user_id ELSE currentKiteUser
         IN /\ lastReceivedMessage' = [origin |-> origin, status |-> status]
            /\ IF status = "success"
               THEN /\ dataProvider' = "kite"
                    /\ tokenValid' = TRUE
                    /\ requiresAuth' = FALSE
                    /\ currentKiteUser' = userId
                    /\ kiteAuthBackupSuccess' = [user_id |-> user_id]
                    /\ CheckKiteToken(<< userId, "true" >>, "handleAuthMessage")
                    /\ AppEffect("kite", FALSE)
               ELSE /\ IF dataProvider = "kite"
                       THEN /\ tokenValid' = FALSE
                            /\ requiresAuth' = TRUE
                            /\ AppEffect(dataProvider, TRUE)
                       ELSE UNCHANGED << tokenValid, requiresAuth, showAuthModal >>
                    /\ tokenCheck' = NoCheck
                    /\ UNCHANGED << dataProvider, currentKiteUser,
                                    kiteAuthBackupSuccess, verifying >>
    /\ UNCHANGED << pc, lastTokenCheck, now, screen, providerRequest >>

\* checkBackupStorage of the 2 s interval, which runs while the provider is
\* 'kite', on the entry kiteAuthBackupSuccess.
checkBackupStorage ==
    /\ pc = "kite"
    /\ dataProvider = "kite"
    /\ kiteAuthBackupSuccess # NoEntry
    /\ kiteAuthBackupSuccess.user_id # "null"
    /\ kiteAuthBackupSuccess' = NoEntry
    /\ tokenValid' = TRUE
    /\ requiresAuth' = FALSE
    /\ currentKiteUser' = kiteAuthBackupSuccess.user_id
    /\ CheckKiteToken(<< kiteAuthBackupSuccess.user_id, "true" >>,
                      "checkBackupStorage")
    /\ AppEffect(dataProvider, FALSE)
    /\ UNCHANGED << pc, dataProvider, lastTokenCheck, now, screen,
                    providerRequest, lastReceivedMessage >>

\* handleCancelClick of KiteAuthModal: changeDataProvider('yahoo') is
\* started and onClose() hides the modal.
handleCancelClick ==
    /\ pc = "kite"
    /\ showAuthModal
    /\ changeDataProvider("yahoo", "null")
    /\ showAuthModal' = FALSE
    /\ UNCHANGED << pc, dataProvider, requiresAuth, tokenValid, lastTokenCheck,
                    currentKiteUser, now, screen, verifying,
                    lastReceivedMessage, kiteAuthBackupSuccess >>
    /\ tokenCheck' = NoCheck

\* handleManualCheck of KiteAuthModal.
handleManualCheck ==
    /\ pc = "kite"
    /\ showAuthModal
    /\ CheckKiteToken(<< currentKiteUser, "true" >>, "handleManualCheck")
    /\ UNCHANGED << pc, dataProvider, requiresAuth, tokenValid, lastTokenCheck,
                    currentKiteUser, showAuthModal, now, screen,
                    providerRequest, lastReceivedMessage,
                    kiteAuthBackupSuccess >>

\* BacktestParameters is shown: the effect verifyKiteToken calls
\* checkKiteToken(true).
verifyKiteToken ==
    /\ pc = "kite"
    /\ screen = "strategy"
    /\ screen' = "backtest"
    /\ IF dataProvider = "kite" /\ shouldVerifyToken
       THEN CheckKiteToken(<< "true" >>, "BacktestParameters")
       ELSE tokenCheck' = NoCheck /\ UNCHANGED verifying
    /\ UNCHANGED << pc, dataProvider, requiresAuth, tokenValid, lastTokenCheck,
                    currentKiteUser, showAuthModal, now, providerRequest,
                    lastReceivedMessage, kiteAuthBackupSuccess >>

\* The user goes back to the strategy step.
LeaveBacktestParameters ==
    /\ pc = "kite"
    /\ screen = "backtest"
    /\ screen' = "strategy"
    /\ UNCHANGED << pc, dataProvider, requiresAuth, tokenValid, lastTokenCheck,
                    currentKiteUser, showAuthModal, now, verifying,
                    providerRequest, lastReceivedMessage,
                    kiteAuthBackupSuccess >>
    /\ tokenCheck' = NoCheck

\* Time passes.
Tick ==
    /\ pc \in {"kite", "kiteauth"}
    /\ \E t \in Instants : t > now /\ now' = t
    /\ UNCHANGED << pc, dataProvider, requiresAuth, tokenValid, lastTokenCheck,
                    currentKiteUser, showAuthModal, screen, verifying,
                    providerRequest, lastReceivedMessage,
                    kiteAuthBackupSuccess >>
    /\ tokenCheck' = NoCheck

InitKite ==
    /\ StartKite
    /\ StartKiteAuth
    /\ strategy_type = "buy"
    /\ bar = 0
    /\ pc = "mount"
    /\ cash = 100000
    /\ position = 0
    /\ pending = NoPending
    /\ opened = 0
    /\ closed = 0
    /\ order = "None"
    /\ buyprice = None
    /\ current_trade = UnsetTrade
    /\ trades = << >>
    /\ position_entry_bar = None
    /\ position_tracking = << >>
    /\ equity_curve = NoEquity
    /\ max_drawdown = << 0, 1 >>
    /\ returns = NoReturns
    /\ sharpe_ratio = "0"
    /\ bar_tracking = NoTracking
    /\ data = NoData
    /\ exit_decision = "None"
    /\ order_reason = "None"
    /\ decided = << >>
    /\ first_signal = 0
    /\ calc = NoCalc
    /\ conditions = << >>
    /\ attributes = {}
    /\ lines = << >>
    /\ evaluation = NoEvaluation
    /\ form = NoForm
    /\ errors = {}
    /\ strategyData = NoStrategy
    /\ NoReplay
    /\ timezoneOffset \in TimezoneOffsets
    /\ dateForm = NoDateForm
    /\ formatted = << >>
    /\ backtestData = NoBacktestData
    /\ NoTuner

otherVars == << strategy_type, bar, brokerVars, strategyVars, evalVars,
               metricVars, historyVars, calc, evaluatorVars, formVars,
               replayVars, dateVars, tunerVars >>

NextKite ==
    \/ fetchDataProviderInfo /\ UNCHANGED << otherVars, kiteAuthVars >>
    \/ VerifyKiteTokenResponse /\ UNCHANGED << otherVars, kiteAuthVars >>
    \/ handleProviderChange /\ UNCHANGED << otherVars, kiteAuthVars >>
    \/ SetDataProviderResponse /\ UNCHANGED << otherVars, kiteAuthVars >>
    \/ handleAuthMessage /\ UNCHANGED << otherVars, kiteAuthVars >>
    \/ checkBackupStorage /\ UNCHANGED << otherVars, kiteAuthVars >>
    \/ handleCancelClick /\ UNCHANGED << otherVars, kiteAuthVars >>
    \/ handleManualCheck /\ UNCHANGED << otherVars, kiteAuthVars >>
    \/ verifyKiteToken /\ UNCHANGED << otherVars, kiteAuthVars >>
    \/ LeaveBacktestParameters /\ UNCHANGED << otherVars, kiteAuthVars >>
    \/ Tick /\ UNCHANGED << otherVars, kiteAuthVars >>

SpecKite == InitKite /\ [][NextKite]_vars

\* ---------------------------------------------------- the KiteAuth component
\* SpecKiteAuth: the page that shows KiteAuth is loaded with or without an
\* auth_status parameter, and the component reports through onAuthSuccess.
Searches == {"null", "success", "failed", "error"}
RecentMs == 10 * 60 * 1000
AuthState(timestamp) == [authenticated |-> TRUE, timestamp |-> timestamp]

\* The effect of KiteAuth on mount.
KiteAuthMount ==
    /\ pc = "authmount"
    /\ IF search = "success"
       THEN /\ authSuccess < MaxAuthSuccess
            /\ authStatus' = TRUE
            /\ kite_auth_state' = AuthState(now)
            /\ authSuccess' = authSuccess + 1
            /\ search' = "null"
            /\ UNCHANGED authRequest
       ELSE IF search \in {"failed", "error"}
       THEN /\ search' = "null"
            /\ UNCHANGED << authStatus, kite_auth_state, authSuccess,
                            authRequest >>
       ELSE LET isRecent == now - kite_auth_state.timestamp < RecentMs
            IN /\ authRequest' = IF kite_auth_state.authenticated /\ isRecent
                                 THEN "stored" ELSE "check"
               /\ UNCHANGED << authStatus, kite_auth_state, authSuccess,
                               search >>
    /\ pc' = "kiteauth"
    /\ UNCHANGED << authResponse, now >>

\* checkAuthStatus(usingStoredState) from the response of kiteAuthStatus on.
checkAuthStatus ==
    /\ pc = "kiteauth"
    /\ authRequest \in {"check", "stored"}
    /\ \E response \in {"authenticated", "unauthenticated", "failure", "throws"} :
         /\ authResponse' = response
         /\ CASE response = "authenticated" ->
                   /\ authSuccess < MaxAuthSuccess
                   /\ authStatus' = TRUE
                   /\ kite_auth_state' = AuthState(now)
                   /\ authSuccess' = authSuccess + 1
              [] response = "unauthenticated" ->
                   /\ authStatus' = FALSE
                   /\ kite_auth_state' = IF authRequest = "stored"
                                         THEN NoAuthState ELSE kite_auth_state
                   /\ UNCHANGED authSuccess
              [] OTHER ->
                   /\ kite_auth_state' = NoAuthState
                   /\ UNCHANGED << authStatus, authSuccess >>
    /\ authRequest' = "None"
    /\ UNCHANGED << pc, search, now >>

\* handleLogin up to its await.
handleLogin ==
    /\ pc = "kiteauth"
    /\ authRequest = "None"
    /\ authRequest' = "login"
    /\ UNCHANGED << pc, authStatus, kite_auth_state, search, authResponse,
                    authSuccess, now >>

\* handleLogin from the response of kiteAuth on; with a login_url the page
\* is left for Kite, which comes back with auth_status in the URL.
handleLoginResponse ==
    /\ pc = "kiteauth"
    /\ authRequest = "login"
    /\ \E response \in {"authenticated", "login_url", "failure"} :
         /\ authResponse' = response
         /\ CASE response = "authenticated" ->
                   /\ authSuccess < MaxAuthSuccess
                   /\ authStatus' = TRUE
                   /\ kite_auth_state' = AuthState(now)
                   /\ authSuccess' = authSuccess + 1
                   /\ UNCHANGED << pc, search >>
              [] response = "login_url" ->
                   /\ pc' = "authmount"
                   /\ search' \in Searches \ {"null"}
                   /\ authStatus' = FALSE
                   /\ UNCHANGED << kite_auth_state, authSuccess >>
              [] OTHER ->
                   UNCHANGED << pc, search, authStatus, kite_auth_state,
                                authSuccess >>
    /\ authRequest' = "None"
    /\ UNCHANGED now

\* The page is loaded again, with any URL.
Navigate ==
    /\ pc = "kiteauth"
    /\ pc' = "authmount"
    /\ search' \in Searches
    /\ authStatus' = FALSE
    /\ authRequest' = "None"
    /\ UNCHANGED << kite_auth_state, authResponse, authSuccess, now >>

InitKiteAuth ==
    /\ StartKite
    /\ authStatus = FALSE
    /\ kite_auth_state = NoAuthState
    /\ search \in Searches
    /\ authRequest = "None"
    /\ authResponse = "null"
    /\ authSuccess = 0
    /\ strategy_type = "buy"
    /\ bar = 0
    /\ pc = "authmount"
    /\ cash = 100000
    /\ position = 0
    /\ pending = NoPending
    /\ opened = 0
    /\ closed = 0
    /\ order = "None"
    /\ buyprice = None
    /\ current_trade = UnsetTrade
    /\ trades = << >>
    /\ position_entry_bar = None
    /\ position_tracking = << >>
    /\ equity_curve = NoEquity
    /\ max_drawdown = << 0, 1 >>
    /\ returns = NoReturns
    /\ sharpe_ratio = "0"
    /\ bar_tracking = NoTracking
    /\ data = NoData
    /\ exit_decision = "None"
    /\ order_reason = "None"
    /\ decided = << >>
    /\ first_signal = 0
    /\ calc = NoCalc
    /\ conditions = << >>
    /\ attributes = {}
    /\ lines = << >>
    /\ evaluation = NoEvaluation
    /\ form = NoForm
    /\ errors = {}
    /\ strategyData = NoStrategy
    /\ NoReplay
    /\ NoDates
    /\ NoTuner

NextKiteAuth ==
    \/ KiteAuthMount /\ UNCHANGED << otherVars, kiteVars >>
    \/ checkAuthStatus /\ UNCHANGED << otherVars, kiteVars >>
    \/ handleLogin /\ UNCHANGED << otherVars, kiteVars >>
    \/ handleLoginResponse /\ UNCHANGED << otherVars, kiteVars >>
    \/ Navigate /\ UNCHANGED << otherVars, kiteVars >>
    \/ Tick /\ UNCHANGED << otherVars, kiteAuthVars >>

SpecKiteAuth == InitKiteAuth /\ [][NextKiteAuth]_vars

\* ------------------------------------------------------------------ types
TypeOK ==
    /\ bar \in 0..ScenarioBars
    /\ pc \in {"feed", "bar", "done", "raised", "calc", "new", "ready",
              "evaluated", "metrics", "form", "saved", "rejected",
              "dates", "formatted", "submitted", "tuner", "mount",
              "kite", "authmount", "kiteauth"}
    /\ position \in {-1, 0, 1}
    /\ Len(decided) = Len(trades)

\* ================================================================== claims
IsEntry(e) == e.action = "ENTRY"
IsExit(e) == e.action = "EXIT"
\* The ENTRY and the EXIT records of position_tracking, in order.
Entries == SelectSeq(position_tracking, IsEntry)
Exits == SelectSeq(position_tracking, IsExit)

\* next() has run its exit branch on the current bar.
ExitEvaluated == pc = "feed" /\ position # 0 /\ data.close # 0
\* next() is about to run its exit branch on the current bar.
ExitEvaluationRuns ==
    pc = "bar" /\ pending.status = "None" /\ order = "None" /\ position # 0

\* profit_pct as the specification states it.
ClaimedProfitPct(type, close, entry) ==
    IF type = "buy"
    THEN << (close - entry) * 100, entry >>
    ELSE << (entry - close) * 100, close >>
Negated(p) == << -p[1], p[2] >>

\* The four triggers on the bar next() has just evaluated.
TargetCrossed ==
    /\ buyprice # None
    /\ PctGE(ClaimedProfitPct(strategy_type, data.close, buyprice), target_profit)
StopCrossed ==
    /\ buyprice # None
    /\ PctGE(Negated(ClaimedProfitPct(strategy_type, data.close, buyprice)),
             stop_loss)
ExitConditionTrue == data.rsi > exit_conditions[1].threshold
HeldTooLong ==
    position_entry_bar # None /\ bar - position_entry_bar > MaxHoldingPeriod

\* C1: at most one position is open at any time, and no entry order exists
\* while a position is open.
C1_AtMostOnePosition ==
    /\ position \in {-1, 0, 1}
    /\ opened - closed = (IF position = 0 THEN 0 ELSE 1)
    /\ (pending.status # "None" /\ pending.isbuy = (strategy_type = "buy"))
            => position = 0
\* A second position is held while the entry line was still signalling.
C1_Witness == position # 0 /\ closed >= 1 /\ pc = "feed"

\* C2: on every bar evaluated in position the exit decision is the first of
\* TargetProfit, StopLoss, ExitCondition, MaxHoldingPeriod whose trigger
\* holds (none if no trigger holds); target and stop together give TargetProfit.
C2_ExitPrecedence ==
    ExitEvaluated =>
        /\ exit_decision =
              IF TargetCrossed THEN "TargetProfit"
              ELSE IF StopCrossed THEN "StopLoss"
              ELSE IF ExitConditionTrue THEN "ExitCondition"
              ELSE IF HeldTooLong THEN "MaxHoldingPeriod"
              ELSE "None"
        /\ (TargetCrossed /\ StopCrossed => exit_decision = "TargetProfit")
\* The exit list and the holding period trigger on the same bar.
C2_Witness ==
    /\ ExitEvaluated
    /\ ExitConditionTrue
    /\ HeldTooLong
    /\ exit_decision = "ExitCondition"

\* The label of the reason notify_order records.
ReasonLabel(reason) ==
    CASE reason = "Take profit triggered" -> "TargetProfit"
      [] reason = "Stop loss triggered" -> "StopLoss"
      [] reason = "Exit conditions met" -> "ExitCondition"
      [] OTHER -> "None"

\* C3: every closed trade is recorded with the exit reason that next()
\* decided the exit by.
C3_RecordedReasonIsDecision ==
    \A i \in 1..Len(decided) :
        i <= Len(Exits) => ReasonLabel(Exits[i].reason) = decided[i]

C5_MaxHoldingCloseBar ==
    /\ \A i \in 1..Len(decided) :
          (i <= Len(Exits) /\ i <= Len(Entries)
              /\ decided[i] = "MaxHoldingPeriod") =>
                /\ Exits[i].bar_index
                      = Entries[i].bar_index + MaxHoldingPeriod + 1
                /\ ReasonLabel(Exits[i].reason) = "MaxHoldingPeriod"
    /\ (position # 0 /\ position_entry_bar # None /\ pc = "feed") =>
          bar - position_entry_bar <= MaxHoldingPeriod

\* C6: every position that is opened is closed again through a trade
\* append: no run ends with a position open.
C6_EveryPositionClosed ==
    pc \in {"done", "raised"} => (position = 0 /\ Len(trades) = opened)

\* C7: the trade list holds one trade per closed position, grows only when
\* a position closes, and what it holds never changes.
C7_TradeAppendedOncePerClose ==
    /\ [](Len(trades) = closed /\ closed <= opened)
    /\ [][/\ Len(trades') >= Len(trades)
          /\ SubSeq(trades', 1, Len(trades)) = trades
          /\ Len(trades') - Len(trades) = closed' - closed]_vars
\* A second trade has been appended behind the first.
C7_Witness == Len(trades) = 2 /\ closed = 2

\* C8: whenever next() evaluates an exit, the entry price is set.
C8_EntryPriceSet ==
    (ExitEvaluationRuns \/ ExitEvaluated) => buyprice # None
\* The stop loss was checked against the entry price and triggered.
C8_Witness == ExitEvaluated /\ buyprice # None /\ exit_decision = "StopLoss"

\* C9: on bars before bar 30 no entry is evaluated or ordered; on every
\* flat bar from bar 30 on the entry conditions are evaluated.
C9_WarmupFloor ==
    /\ bar < WarmupBars =>
          /\ bar_tracking = NoTracking
          /\ pending = NoPending
          /\ order = "None"
          /\ position = 0
          /\ first_signal = 0
    /\ (pc = "feed" /\ bar >= WarmupBars /\ position = 0) =>
          (bar_tracking.type = "entry" /\ bar_tracking.bar_number = bar)
\* The entry is evaluated and ordered on the first bar past the warm-up.
C9_Witness ==
    /\ pc = "feed"
    /\ bar = WarmupBars
    /\ bar_tracking.bar_number = bar
    /\ pending.status = "Created"

\* C10: the position is entered on the bar on which the entry condition is
\* first true, and that bar is the recorded entry bar.
C10_EnteredOnSignalBar ==
    Len(position_tracking) >= 1 =>
        /\ position_tracking[1].action = "ENTRY"
        /\ position_tracking[1].bar_index = first_signal

\* C11: in the stop-loss scenario the strategy enters at bar 30, leaves that
\* position at bar 60 with reason StopLoss and a profit_pct of -10%, and
\* max_drawdown is at least 10%.
C11_StopLossScenario ==
    pc = "done" =>
        /\ Len(Entries) >= 1 /\ Len(Exits) >= 1 /\ Len(trades) >= 1
        /\ Entries[1].bar_index = 30
        /\ Exits[1].bar_index = 60
        /\ ReasonLabel(Exits[1].reason) = "StopLoss"
        /\ PctEq(trades[1].profit_pct, << -10, 1 >>)
        /\ PctGE(max_drawdown, 10)

\* C12: the equity curve has one point per bar the feed has delivered and
\* the strategy has been handed, whatever happened to an order on that bar.
C12_EquityPointPerBar ==
    /\ pc \in {"feed", "done", "raised"} => equity_curve.len = bar
    /\ pc = "bar" => equity_curve.len = bar - 1

\* C13: an order decided on a bar is resolved, and self.order cleared, by
\* the time next() runs on the following bar: self.order is set only on the
\* bar that created the order and while the broker works on it, so next()
\* never skips a bar.
C13_OrderResolvedByNextBar ==
    /\ (pc = "feed" /\ order # "None") =>
          (pending.status = "Created" /\ data.close = pending.created)
    /\ (pc = "bar" /\ order # "None") => pending.status # "None"
    /\ pc = "feed" => equity_curve.len = bar
\* The entry ordered on the bar before was dropped (Margin) and next() is
\* about to run with self.order cleared.
C13_Witness ==
    /\ pc = "bar"
    /\ first_signal # 0
    /\ bar = first_signal + 1
    /\ pending.status = "None"
    /\ order = "None"
    /\ position = 0

\* C14: no run is aborted by an exception: every run reaches the end of the
\* feed.
C14_RunCompletes == pc # "raised"

\* A percentage as the specification wants it: a number greater than 0.
PositiveNumber(x) == ~x.nan /\ x.value > 0
ValidPercentage(v) == v.text = "number" /\ v.value > 0

C16_NonIdentifierRejected ==
    /\ pc \in {"ready", "evaluated"} =>
          \A i \in 1..Len(conditions) : IsIdentifier(conditions[i].variable)
    /\ evaluation.tag = "done" =>
          \A k \in 1..Len(evaluation.trace) :
              IsIdentifier(evaluation.trace[k].variable)
                  \/ evaluation.trace[k].error

\* The six operators of the specification.
AllowedOperators == {"=", ">", "<", ">=", "<=", "!="}
\* The comparison each of them stands for; a comparison with NaN is false.
ClaimedCompare(comparison, var_value, threshold) ==
    /\ var_value # NaN
    /\ CASE comparison = "="  -> var_value = threshold
         [] comparison = ">"  -> var_value > threshold
         [] comparison = "<"  -> var_value < threshold
         [] comparison = ">=" -> var_value >= threshold
         [] comparison = "<=" -> var_value <= threshold
         [] comparison = "!=" -> var_value # threshold
         [] OTHER -> FALSE

\* C17: a strategy with a condition whose operator is not one of the six
\* allowed ones is rejected: none is constructed and evaluated.
C17_UnknownOperatorRejected ==
    pc \in {"ready", "evaluated"} =>
        \A i \in 1..Len(conditions) :
            conditions[i].comparison \in AllowedOperators

\* C18: the result of a condition that carries one of the six operators is
\* that comparison of the value of its line, a number, with the threshold.
C18_OperatorSemantics ==
    evaluation.tag = "done" =>
        \A k \in 1..Len(evaluation.trace) :
            LET t == evaluation.trace[k] IN
            (~t.error /\ t.value # None /\ t.comparison \in AllowedOperators) =>
                t.result = ClaimedCompare(t.comparison, t.value, t.threshold)

\* Whether condition c of a list is true on a bar with the lines ls: its
\* variable is a line and the comparison holds.
ConditionTrue(c, ls) ==
    /\ c.variable \in DOMAIN ls
    /\ ClaimedCompare(c.comparison, ls[c.variable], c.threshold)

\* C19: a condition list evaluates to true on a bar exactly if at least
\* one condition of the list is true on that bar.
C19_OrCombined ==
    evaluation.tag = "done" =>
        (evaluation.flag <=>
            \E i \in 1..Len(conditions) : ConditionTrue(conditions[i], lines))

\* C20: the trace of an evaluated list has one entry per condition, in the
\* order of the list, with the result of that condition, also behind the
\* first condition that is true.
C20_TraceComplete ==
    evaluation.tag = "done" =>
        /\ Len(evaluation.trace) = Len(conditions)
        /\ \A k \in 1..Len(evaluation.trace) :
              LET t == evaluation.trace[k]
                  alone == ConditionLoop(<< conditions[k] >>, lines,
                                         evaluation.type)
              IN /\ t.variable = conditions[k].variable
                 /\ t.comparison = conditions[k].comparison
                 /\ t.type = evaluation.type
                 /\ t.result = alone.flag
\* The first condition of a list of two is true and the second, false, is
\* in the trace.
C20_Witness ==
    /\ evaluation.tag = "done"
    /\ Len(conditions) = 2
    /\ Len(evaluation.trace) = 2
    /\ evaluation.trace[1].result
    /\ ~evaluation.trace[2].result

\* The class finds no line for a variable: neither under its name nor under
\* its sanitized name.
Absent(var_name, ls) ==
    var_name \notin DOMAIN ls /\ SafeVarName(var_name) \notin DOMAIN ls

\* C21: a condition whose variable is absent from the bar has the result
\* false and a trace entry that records the missing variable, and the other
\* conditions of the list are evaluated all the same.
C21_MissingVariable ==
    evaluation.tag = "done" =>
        /\ Len(evaluation.trace) = Len(conditions)
        /\ \A k \in 1..Len(conditions) :
              IF Absent(conditions[k].variable, lines)
              THEN /\ evaluation.trace[k].variable = conditions[k].variable
                   /\ evaluation.trace[k].error
                   /\ ~evaluation.trace[k].result
                   /\ evaluation.trace[k].value = None
              ELSE ~evaluation.trace[k].error
        /\ (\A k \in 1..Len(conditions) : Absent(conditions[k].variable, lines))
              => ~evaluation.flag
\* The variable of the first condition is absent, the second condition is
\* evaluated and true.
C21_Witness ==
    /\ evaluation.tag = "done"
    /\ Len(conditions) = 2
    /\ conditions[1].variable = VarRsi
    /\ evaluation.trace[1].error
    /\ ~evaluation.trace[2].error
    /\ evaluation.trace[2].result
    /\ evaluation.flag

\* C22: a condition whose variable is NaN on the bar is false on that bar
\* for each of the six operators; a list of such conditions triggers nothing.
C22_NaNIsFalse ==
    evaluation.tag = "done" =>
        /\ \A k \in 1..Len(conditions) :
              (/\ conditions[k].variable \in DOMAIN lines
               /\ lines[conditions[k].variable] = NaN
               /\ conditions[k].comparison \in AllowedOperators)
                  => ~evaluation.trace[k].result
        /\ (\A k \in 1..Len(conditions) :
                /\ conditions[k].variable \in DOMAIN lines
                /\ lines[conditions[k].variable] = NaN
                /\ conditions[k].comparison \in AllowedOperators)
              => ~evaluation.flag

\* C23: after every bar the Sharpe ratio is a finite number, and it is 0
\* when the standard deviation of the returns is 0 or NaN.
C23_SharpeFinite ==
    /\ sharpe_ratio \in {"0", "finite"}
    /\ (returns.len > 1 /\ StdDev(returns) \in {"zero", "nan"}) =>
          sharpe_ratio = "0"
\* A NaN return came in after the ratio had been a number other than 0.
C23_Witness ==
    /\ returns.len > 2
    /\ returns.nonzero
    /\ returns.nan
    /\ sharpe_ratio = "0"

IsoDay(day) ==
    LET c == CivilDay(day * MinutesPerDay)
        d(n, place) == DigitChars[((n \div place) % 10) + 1]
    IN << d(c.year, 1000), d(c.year, 100), d(c.year, 10), d(c.year, 1), "-",
          d(c.month, 10), d(c.month, 1), "-", d(c.day, 10), d(c.day, 1) >>

\* The part of C25 about formatLocalDate alone: it returns YYYY-MM-DD of the
\* local calendar day of a Date.
FormatLocalDateIsLocalDay ==
    pc = "formatted" =>
        /\ formatted[1] = IsoDay(dateForm.start)
        /\ dateForm.endDate # None => formatted[2] = IsoDay(dateForm.end)

\* C25: formatLocalDate returns YYYY-MM-DD of the local calendar day of a
\* Date, whatever its time of day and the timezone, and the start and end
\* dates handleSubmit sends are the calendar days the user selected.
C25_LocalDaySent ==
    /\ FormatLocalDateIsLocalDay
    /\ pc = "submitted" =>
         /\ backtestData.start_date = IsoDay(dateForm.start)
         /\ backtestData.end_date = IsoDay(dateForm.end)

\* pollOptimizationStatus(id) has handled a response that carries a status:
\* neither retry counter has moved.
StatusStep(id) ==
    /\ polls[id].state = "request"
    /\ polls'[id].state # "request"
    /\ pollAttempts' = pollAttempts
    /\ pollRetries' = pollRetries

\* C26: after a status 'running', 'running iteration' or 'starting' the next
\* status request is scheduled; after 'completed', 'failed' or 'error'
\* polling has ended, and once it has ended no status request is issued for
\* that optimization again.
C26_PollingStops ==
    [][\A id \in OptimizationIds :
        /\ (StatusStep(id) /\ optimizationStatus' \in RunningStatuses)
              => (polls'[id].state = "timer" /\ polls'[id].delay = PollInterval)
        /\ (StatusStep(id) /\ optimizationStatus' \in {"completed", "failed", "error"})
              => polls'[id].state = "ended"
        /\ polls[id].state = "ended" => polls'[id] = polls[id]]_vars
\* Polling went on after a running status and has ended with 'completed'.
C26_Witness ==
    /\ polls[1].state = "ended"
    /\ optimizationStatus = "completed"
    /\ statusRequests >= 2
    /\ pollAttempts = 0
    /\ pollRetries = 0

\* C27: when polling of an optimization ends, an error message is set or
\* the results tab is about to be activated.
C27_NeverSilent ==
    [][\A id \in OptimizationIds :
        (polls[id].state = "request" /\ polls'[id].state = "ended")
          => (error' # "null" \/ id \in resultsTimers')]_vars

\* C28: a retry is scheduled at most 5 times in a row and with a delay of
\* at most 10 seconds; the failure after the 5th retry ends polling with the
\* error shown.
C28_RetryBounded ==
    /\ pollAttempts <= MaxPollAttempts
    /\ pollRetries <= MaxPollAttempts
    /\ \A id \in OptimizationIds :
         polls[id].state = "timer" => polls[id].delay <= MaxRetryDelay

\* C29: the 'backtest' tab is active only with strategy_id set and the
\* 'tuning' tab only with backtestResults set; a save or backtest that
\* ends with an error leaves the tab where it was.
C29_TabNotAhead ==
    /\ [](activeTab = "backtest" => strategy_id)
    /\ [](activeTab = "tuning" => backtestResults # "null")
    /\ [][(loading \in {"save", "backtest"} /\ loading' = "None"
            /\ error' # error) => activeTab' = activeTab]_vars
\* A backtest has failed on the 'backtest' tab, which is still shown.
C29_Witness ==
    /\ activeTab = "backtest"
    /\ strategy_id
    /\ backtestResults = "null"
    /\ error # "null"
    /\ loading = "None"

\* C30: the 'results' tab is active only when the optimization has been
\* reported 'completed' and its comparison data is stored.
C30_ResultsAfterCompleted ==
    activeTab = "results" =>
        (optimizationStatus = "completed" /\ optimizationResults = "compared")

\* The positive thresholds the risk checks are compared against.
RiskThresholds == {1, stop_loss, target_profit, 100}

\* C38: in both directions the loss percentage of the risk check is the
\* negation of its profit percentage, so for positive target_profit and
\* stop_loss the two thresholds are never both met at one price.
C38_TriggersExclusive ==
    calc.tag = "done" =>
        /\ calc.loss = Negated(calc.risk)
        /\ \A tp \in RiskThresholds, sl \in RiskThresholds :
             ~(PctGE(calc.risk, tp) /\ PctGE(calc.loss, sl))
\* A short position whose price rose past the stop-loss threshold.
C38_Witness ==
    /\ calc.tag = "done"
    /\ calc.type = "sell"
    /\ calc.price > calc.entry_price
    /\ PctGE(calc.loss, stop_loss)
    /\ ~PctGE(calc.risk, target_profit)

\* C39: while a position is open, long or short, position_entry_bar holds
\* the bar of the entry fill, and it is cleared only by the fill that
\* closes the position.
C39_EntryBarSet ==
    /\ [](position # 0 => position_entry_bar # None)
    /\ [][(position_entry_bar # None /\ position_entry_bar' = None)
            => position' = 0]_vars

\* The optimizations whose polling chain is still scheduled: a status
\* request in flight or a setTimeout pending.
Polling == {id \in OptimizationIds : polls[id].state \in {"request", "timer"}}

\* C31: at most one optimization is being polled at any time.
C31_OnePollingChain == Cardinality(Polling) <= 1

\* C32: when polling begins for a new optimization id, the failure
\* counters window.pollAttempts and window.pollRetries are unset.
C32_FullBudget ==
    [][optimizationId' # optimizationId
        => (pollAttempts = 0 /\ pollRetries = 0)]_vars

\* A call of checkKiteToken was made in the step that led here.
Checked == tokenCheck.caller # "null"
\* Less than one hour has passed since the last check that was answered.
CheckedRecently == lastTokenCheck # None /\ now - lastTokenCheck < HourMs

AfterTradingHours == now + istOffset * 60000 >= TimeOfDay(15, 30, 5)

\* C34: when BacktestParameters is shown with the Kite provider after
\* trading hours, a forced check is made for the current Kite user and
\* issues a verifyKiteToken request.
C34_ForcedAfterHours ==
    [][(screen = "strategy" /\ screen' = "backtest" /\ dataProvider = "kite"
          /\ AfterTradingHours)
        => /\ tokenCheck'.caller = "BacktestParameters"
           /\ tokenCheck'.force
           /\ tokenCheck'.requested
           /\ tokenCheck'.userId = currentKiteUser]_vars

\* C35: the authentication modal is shown if and only if the provider is
\* Kite and authentication is required.
C35_ModalIffRequired ==
    showAuthModal <=> (getBaseProvider(dataProvider) = "kite" /\ requiresAuth)

\* C36: onAuthSuccess is called only in a step that receives the answer
\* of the backend that the session is authenticated.
C36_SuccessConfirmed ==
    [][authSuccess' > authSuccess
        => (authRequest # "None" /\ authResponse' = "authenticated")]_vars

\* C37: a message that does not come from the authentication popup leaves
\* dataProvider, tokenValid and requiresAuth as they are.
C37_OnlyFromPopup ==
    [][(lastReceivedMessage' # lastReceivedMessage
          /\ lastReceivedMessage'.origin # "popup")
        => UNCHANGED << dataProvider, tokenValid, requiresAuth >>]_vars

====
